---- MODULE Spec2Model ----
(***************************************************************************)
(* Multi-account OAuth credential lifecycle (auth/auth_manager.py) and the *)
(* tool dispatcher of the line-protocol server (mcp_server.py, tools/).    *)
(*                                                                         *)
(* Spec      : the AuthManager, one call at a time.                        *)
(* SpecConc  : the AuthManager shared by concurrently served requests;     *)
(*             get_authenticated_client and remove_account, which touch    *)
(*             the token file more than once or call the network between   *)
(*             two accesses, are split into their steps.                   *)
(* SpecStore : _save_tokens / _load_tokens applied to arbitrary credential *)
(*             objects.                                                    *)
(* SpecMcp   : the single-threaded read-evaluate-respond loop.             *)
(* SpecLoop  : run() reading stdin line by line until it ends;             *)
(*             SpecLoopFair adds that a line read is answered and that the *)
(*             end of input is noticed.                                    *)
(* SpecApi   : the HTTP routes of the web app (routes/), one request at a  *)
(*             time.                                                       *)
(* SpecBoth  : the protocol server and the web app on one token directory. *)
(* SpecTools : tools/call with the arguments the operations read.          *)
(***************************************************************************)
EXTENDS Integers, Sequences, FiniteSets, TLC

VARIABLES
    tokens,      \* tokens_dir: email -> content of <email>.json, or no file
    now,         \* the wall clock, in clock ticks (UsPerSec ticks a second)
    nextTok,     \* the next access token the token endpoint will issue
    authorized,  \* history: emails a handle_oauth_callback has succeeded for
    pc,          \* per request thread: position inside AuthManager
    loc,         \* per request thread: the locals of the call in progress
    ret,         \* the call that returned last, with what it returned
    last_saved,  \* history: email -> the Credentials object saved last, if any
    out,         \* line protocol: the lines the last iteration of run() wrote
    disp,        \* line protocol: what the last iteration of run() did
    req,         \* line protocol: the request envelope the last line parsed to
    stdin,       \* line protocol: "open", or "ended" when no more lines arrive
    loop,        \* line protocol: where run() stands, with the line it holds
    log          \* line protocol: history of lines read and responses flushed

vars ==
    << tokens, now, nextTok, authorized, pc, loc, ret, last_saved, out, disp,
       req, stdin, loop, log >>

authVars == <<tokens, now, nextTok, authorized, pc, loc, ret>>
mcpVars == <<out, disp, req, stdin, loop, log>>
storeVars == <<last_saved>>

(***************************************************************************)
(* Bounds                                                                  *)
(***************************************************************************)
MaxTime == 2          \* the clock stops after this many seconds
MaxTok == 3           \* access tokens the token endpoint issues in a run
MaxExpiresIn == 1     \* largest expires_in (seconds) of a token response
UsPerSec == 2         \* clock ticks per second (sub-second resolution)
NumThreads == 2       \* requests served concurrently
MaxLines == 3         \* input lines the history of the loop follows

Accounts == {"a@x.com", "b@x.com"}
Threads == 1..NumThreads
ExpiresIn == 1..MaxExpiresIn

\* Python's None / an optional value
None == {}
Some(x) == {x}
The(o) == CHOOSE x \in o : TRUE

(***************************************************************************)
(* OAuth client configuration, AuthManager.__init__                        *)
(***************************************************************************)
client_id == "GOOGLE_CLIENT_ID"
client_secret == "GOOGLE_CLIENT_SECRET"
token_uri == "https://oauth2.googleapis.com/token"
scopes ==
    << "openid",
       "https://www.googleapis.com/auth/gmail.readonly",
       "https://www.googleapis.com/auth/gmail.send",
       "https://www.googleapis.com/auth/gmail.modify",
       "https://www.googleapis.com/auth/gmail.labels",
       "https://www.googleapis.com/auth/gmail.settings.basic",
       "https://www.googleapis.com/auth/calendar",
       "https://www.googleapis.com/auth/calendar.events",
       "https://www.googleapis.com/auth/drive",
       "https://www.googleapis.com/auth/drive.file",
       "https://www.googleapis.com/auth/documents",
       "https://www.googleapis.com/auth/documents.readonly",
       "https://www.googleapis.com/auth/spreadsheets",
       "https://www.googleapis.com/auth/contacts.readonly",
       "https://www.googleapis.com/auth/userinfo.email",
       "https://www.googleapis.com/auth/userinfo.profile" >>

\* the API surfaces the tools and routes ask a handle for (service name and
\* version, as passed to get_authenticated_client)
Surfaces ==
    { [name |-> "gmail", version |-> "v1"],
      [name |-> "calendar", version |-> "v3"],
      [name |-> "drive", version |-> "v3"],
      [name |-> "people", version |-> "v1"],
      [name |-> "docs", version |-> "v1"],
      [name |-> "sheets", version |-> "v4"] }

(***************************************************************************)
(* Credential store: _save_tokens / _load_tokens                           *)
(***************************************************************************)
\* variant: isoformat(timespec='seconds') drops the fraction
isoformat_seconds(dt) == << dt \div UsPerSec >>

\* datetime.isoformat(): the fraction is printed only when it is not zero
isoformat(dt) ==
    IF dt % UsPerSec = 0
    THEN << dt \div UsPerSec >>
    ELSE << dt \div UsPerSec, dt % UsPerSec >>

\* datetime.fromisoformat(): a missing fraction reads as zero
fromisoformat(s) ==
    s[1] * UsPerSec + (IF Len(s) = 2 THEN s[2] ELSE 0)

\* the JSON object _save_tokens dumps
token_data(creds) ==
    [ token |-> creds.token,
      refresh_token |-> creds.refresh_token,
      token_uri |-> creds.token_uri,
      client_id |-> creds.client_id,
      client_secret |-> creds.client_secret,
      scopes |-> creds.scopes,
      expiry |-> IF creds.expiry # None
                 THEN Some(isoformat(The(creds.expiry)))
                 ELSE None ]

\* variant: one token file for all accounts
_save_tokens_one_file(store, email, creds) ==
    [e \in DOMAIN store |-> Some(token_data(creds))]

\* open(token_file, 'w'); json.dump(token_data, f): the file is replaced whole
_save_tokens(store, email, creds) ==
    [store EXCEPT ![email] = Some(token_data(creds))]

\* None when there is no file, else the Credentials rebuilt from the JSON
_load_tokens(store, email) ==
    IF store[email] = None
    THEN None
    ELSE LET td == The(store[email]) IN
         Some([ token |-> td.token,
                refresh_token |-> td.refresh_token,
                token_uri |-> td.token_uri,
                client_id |-> td.client_id,
                client_secret |-> td.client_secret,
                scopes |-> td.scopes,
                expiry |-> IF td.expiry # None
                           THEN Some(fromisoformat(The(td.expiry)))
                           ELSE None ])

\* (self.tokens_dir / f'{email}.json').exists()
is_authenticated(store, email) == store[email] # None

\* variant: only the accounts whose record can still be refreshed are listed
list_accounts_refreshable(store) ==
    { [email |-> e, authenticated |-> TRUE] :
        e \in {x \in DOMAIN store : store[x] # None /\ The(store[x]).refresh_token # None} }

\* [email for token_file in tokens_dir.glob('*.json')]
list_accounts(store) ==
    { [email |-> e, authenticated |-> TRUE] : e \in {x \in DOMAIN store : store[x] # None} }

\* token_file.unlink()
unlink(store, email) == [store EXCEPT ![email] = None]

(***************************************************************************)
(* Credentials objects                                                     *)
(***************************************************************************)
\* flow.credentials after flow.fetch_token(code=code)
flow_credentials(tok, rt, t, expires_in) ==
    [ token |-> tok,
      refresh_token |-> rt,
      token_uri |-> token_uri,
      client_id |-> client_id,
      client_secret |-> client_secret,
      scopes |-> scopes,
      expiry |-> Some(t + expires_in * UsPerSec) ]

\* creds.expired
expired(creds, t) == creds.expiry # None /\ t >= The(creds.expiry)

\* variant: refresh whenever a refresh token is present
needs_refresh_ignores_expiry(creds, t) == creds.refresh_token # None

\* the test that guards creds.refresh(Request())
needs_refresh(creds, t) == expired(creds, t) /\ creds.refresh_token # None

\* creds.refresh(Request()) when the token endpoint answers
refresh(creds, tok, t, expires_in) ==
    [creds EXCEPT !.token = tok, !.expiry = Some(t + expires_in * UsPerSec)]

\* build(service_name, version, credentials=creds)
build(surface, creds) ==
    [ service |-> surface.name, version |-> surface.version, token |-> creds.token ]

(***************************************************************************)
(* AuthManager operations, one call at a time (Spec)                       *)
(***************************************************************************)
NoRet == [op |-> "none"]

\* no line has parsed to a request envelope
NoReq == [parsed |-> FALSE]

\* run() stands at sys.stdin.readline()
AtReadline == [at |-> "readline"]

\* str(uuid.uuid4()) values
States == {"s1", "s2"}

\* authorization codes a callback may carry
Codes == {"c1"}

\* the surfaces concurrent requests ask a handle for
RequestSurfaces ==
    { [name |-> "gmail", version |-> "v1"], [name |-> "drive", version |-> "v3"] }

\* what the token endpoint answers to a refresh: None when the call raises
Endpoint(tok) == {None} \cup {Some([token |-> tok, expires_in |-> x]) : x \in ExpiresIn}

\* variant: the hinted email is recorded as an account when the URL is issued
get_auth_url_saves_hint(hint, state) ==
    /\ tokens' = [e \in Accounts |->
                    IF e = hint
                    THEN Some(token_data(flow_credentials(0, None, now, 1)))
                    ELSE tokens[e]]
    /\ ret' = [ op |-> "get_auth_url",
                result |-> [success |-> TRUE, authUrl |-> <<"auth", state>>, state |-> state] ]
    /\ UNCHANGED <<now, nextTok, authorized, pc, loc>>
    /\ UNCHANGED <<mcpVars, storeVars>>

\* get_auth_url: builds the URL with a fresh uuid4 state; the email hint is
\* not used and nothing is stored
get_auth_url(hint, state) ==
    /\ ret' = [ op |-> "get_auth_url",
                result |-> [success |-> TRUE, authUrl |-> <<"auth", state>>, state |-> state] ]
    /\ UNCHANGED <<tokens, now, nextTok, authorized, pc, loc>>
    /\ UNCHANGED <<mcpVars, storeVars>>

\* handle_oauth_callback, the code exchange raises
callback_exchange_fails(code, state) ==
    /\ ret' = [ op |-> "handle_oauth_callback", outcome |-> "exchange_failed",
                result |-> [success |-> FALSE, error |-> "fetch_token"] ]
    /\ UNCHANGED <<tokens, now, nextTok, authorized, pc, loc>>
    /\ UNCHANGED <<mcpVars, storeVars>>

\* variant: the tokens are saved before the email is known to be present
callback_userinfo_fails_after_save(code, state, outcome) ==
    /\ nextTok <= MaxTok
    /\ nextTok' = nextTok + 1
    /\ \E e \in Accounts :
          tokens' = _save_tokens(tokens, e, flow_credentials(nextTok, None, now, 1))
    /\ ret' = [ op |-> "handle_oauth_callback", outcome |-> outcome,
                result |-> [success |-> FALSE, error |-> "userinfo"] ]
    /\ UNCHANGED <<now, authorized, pc, loc>>
    /\ UNCHANGED <<mcpVars, storeVars>>

\* handle_oauth_callback, the exchange succeeds and userinfo().get().execute()
\* raises, or answers without an email
callback_userinfo_fails(code, state, outcome) ==
    /\ ret' = [ op |-> "handle_oauth_callback", outcome |-> outcome,
                result |-> [success |-> FALSE,
                            error |-> IF outcome = "no_email"
                                      THEN "Could not retrieve user email"
                                      ELSE "userinfo"] ]
    /\ UNCHANGED <<tokens, now, nextTok, authorized, pc, loc>>
    /\ UNCHANGED <<mcpVars, storeVars>>

\* variant: the callback goes through only with the state issued last
callback_succeeds_checks_state(code, state, email, rt, expires_in) ==
    /\ IF ret.op = "get_auth_url" THEN ret.result.state = state ELSE FALSE
    /\ nextTok <= MaxTok
    /\ nextTok' = nextTok + 1
    /\ tokens' = _save_tokens(tokens, email, flow_credentials(nextTok, rt, now, expires_in))
    /\ authorized' = authorized \cup {email}
    /\ ret' = [ op |-> "handle_oauth_callback", outcome |-> email,
                result |-> [success |-> TRUE, email |-> email] ]
    /\ UNCHANGED <<now, pc, loc>>
    /\ UNCHANGED <<mcpVars, storeVars>>

\* handle_oauth_callback, the exchange succeeds and userinfo names the email:
\* the tokens are saved under that email
callback_succeeds(code, state, email, rt, expires_in) ==
    /\ nextTok <= MaxTok
    /\ nextTok' = nextTok + 1
    /\ tokens' = _save_tokens(tokens, email, flow_credentials(nextTok, rt, now, expires_in))
    /\ authorized' = authorized \cup {email}
    /\ ret' = [ op |-> "handle_oauth_callback", outcome |-> email,
                result |-> [success |-> TRUE, email |-> email] ]
    /\ UNCHANGED <<now, pc, loc>>
    /\ UNCHANGED <<mcpVars, storeVars>>

\* variant: the refreshed credentials are used but never written back
gac_refreshed_skips_persist(store, email, surface, creds, tok, t, expires_in) ==
    [ store |-> store, saved |-> None,
      result |-> Some(build(surface, refresh(creds, tok, t, expires_in))) ]

\* get_authenticated_client, lines 148-151, when creds.refresh answers
gac_refreshed(store, email, surface, creds, tok, t, expires_in) ==
    LET fresh == refresh(creds, tok, t, expires_in)
        written == _save_tokens(store, email, fresh)
    IN [ store |-> written, saved |-> _load_tokens(written, email),
         result |-> Some(build(surface, fresh)) ]

\* variant: a failed refresh drops the stored record
gac_refresh_raised_drops_record(store, email) ==
    [ store |-> unlink(store, email), saved |-> None, result |-> None ]

\* get_authenticated_client, lines 152-154, when creds.refresh raises
gac_refresh_raised(store, email) ==
    [ store |-> store, saved |-> None, result |-> None ]

\* get_authenticated_client, lines 147-151, on the credentials loaded
gac_loaded(creds, was_expired, refreshes, refresh_raised, r) ==
    [ store |-> r.store, loaded |-> Some(creds), was_expired |-> was_expired,
      refreshes |-> refreshes, refresh_raised |-> refresh_raised, saved |-> r.saved,
      result |-> r.result ]

\* get_authenticated_client, lines 143-154, on what _load_tokens returned
gac_after_load(store, email, surface, t, endpoint, creds) ==
    IF creds = None
    THEN [ store |-> store, loaded |-> None, was_expired |-> FALSE, refreshes |-> 0,
           refresh_raised |-> FALSE, saved |-> None, result |-> None ]
    ELSE IF needs_refresh(The(creds), t)
    THEN IF endpoint = None
         THEN gac_loaded(The(creds), expired(The(creds), t), 1, TRUE,
                         gac_refresh_raised(store, email))
         ELSE gac_loaded(The(creds), expired(The(creds), t), 1, FALSE,
                         gac_refreshed(store, email, surface, The(creds),
                                       The(endpoint).token, t, The(endpoint).expires_in))
    ELSE gac_loaded(The(creds), expired(The(creds), t), 0, FALSE,
                    [ store |-> store, saved |-> None,
                      result |-> Some(build(surface, The(creds))) ])

\* get_authenticated_client run without interruption: the store it leaves,
\* what it returns and what it did on the way
get_authenticated_client(store, email, surface, t, endpoint) ==
    gac_after_load(store, email, surface, t, endpoint, _load_tokens(store, email))

\* what a returned get_authenticated_client call did
GacRet(email, r) ==
    [ op |-> "get_authenticated_client", email |-> email,
      loaded |-> r.loaded, was_expired |-> r.was_expired,
      refreshes |-> r.refreshes, refresh_raised |-> r.refresh_raised,
      saved |-> r.saved, result |-> r.result ]

\* a get_authenticated_client call
call_get_authenticated_client(email, surface, endpoint) ==
    /\ endpoint # None => nextTok <= MaxTok
    /\ LET r == get_authenticated_client(tokens, email, surface, now, endpoint) IN
       /\ tokens' = r.store
       /\ nextTok' = IF r.refreshes = 1 /\ ~r.refresh_raised THEN nextTok + 1 ELSE nextTok
       /\ ret' = GacRet(email, r)
    /\ UNCHANGED <<now, authorized, pc, loc>>
    /\ UNCHANGED <<mcpVars, storeVars>>

\* variant: unlink without the exists() test, a missing file raises
remove_account_unchecked(store, email) ==
    IF is_authenticated(store, email)
    THEN [store |-> unlink(store, email), result |-> TRUE]
    ELSE [store |-> store, result |-> FALSE]

\* remove_account run without interruption
remove_account(store, email) ==
    IF is_authenticated(store, email)
    THEN [store |-> unlink(store, email), result |-> TRUE]
    ELSE [store |-> store, result |-> TRUE]

\* a remove_account call
call_remove_account(email) ==
    /\ tokens' = remove_account(tokens, email).store
    /\ ret' = [ op |-> "remove_account", email |-> email,
                existed |-> is_authenticated(tokens, email),
                result |-> remove_account(tokens, email).result ]
    /\ UNCHANGED <<now, nextTok, authorized, pc, loc>>
    /\ UNCHANGED <<mcpVars, storeVars>>

\* an is_authenticated call
call_is_authenticated(email) ==
    /\ ret' = [ op |-> "is_authenticated", email |-> email,
                result |-> is_authenticated(tokens, email) ]
    /\ UNCHANGED <<tokens, now, nextTok, authorized, pc, loc>>
    /\ UNCHANGED <<mcpVars, storeVars>>

\* a list_accounts call
call_list_accounts ==
    /\ ret' = [ op |-> "list_accounts", result |-> list_accounts(tokens) ]
    /\ UNCHANGED <<tokens, now, nextTok, authorized, pc, loc>>
    /\ UNCHANGED <<mcpVars, storeVars>>

\* time passes; requests are observed at whole seconds
Tick ==
    /\ now < MaxTime * UsPerSec
    /\ now' = now + UsPerSec
    /\ UNCHANGED <<tokens, nextTok, authorized, pc, loc, ret>>
    /\ UNCHANGED <<mcpVars, storeVars>>

IdleLoc == [op |-> "none"]

Init ==
    /\ tokens = [e \in Accounts |-> None]
    /\ now = 0
    /\ nextTok = 1
    /\ authorized = {}
    /\ pc = [t \in Threads |-> "idle"]
    /\ loc = [t \in Threads |-> IdleLoc]
    /\ ret = NoRet
    /\ last_saved = [e \in Accounts |-> None]
    /\ out = << >>
    /\ disp = [op |-> "none"]
    /\ req = NoReq
    /\ stdin = "open"
    /\ loop = AtReadline
    /\ log = << >>

\* the calls that touch the credential store at most once
AtomicCall ==
    \/ \E e \in Accounts \cup {"hint@x.com"}, s \in States : get_auth_url(e, s)
    \/ \E c \in Codes, s \in States : callback_exchange_fails(c, s)
    \/ \E c \in Codes, s \in States, o \in {"userinfo_failed", "no_email"} :
          callback_userinfo_fails(c, s, o)
    \/ \E c \in Codes, s \in States, e \in Accounts, rt \in {None, Some("rt")}, x \in ExpiresIn :
          callback_succeeds(c, s, e, rt, x)
    \/ \E e \in Accounts : call_is_authenticated(e)
    \/ call_list_accounts

Next ==
    \/ AtomicCall
    \/ \E e \in Accounts, sf \in Surfaces, ep \in Endpoint(nextTok) :
          call_get_authenticated_client(e, sf, ep)
    \/ \E e \in Accounts : call_remove_account(e)
    \/ Tick

Spec == Init /\ [][Next]_vars

(***************************************************************************)
(* AuthManager shared by concurrently served requests (SpecConc): the two  *)
(* calls that touch a credential file more than once, or call the network  *)
(* between two accesses, advance one access at a time                      *)
(***************************************************************************)
\* a request is served by the first worker thread that is free
FirstFree(t) == pc[t] = "idle" /\ \A u \in 1..(t - 1) : pc[u] # "idle"

\* what a get_authenticated_client call in progress has done when it returns
GacDone(t, raised, saved, result) ==
    [ op |-> "get_authenticated_client", email |-> loc[t].email,
      loaded |-> loc[t].loaded, was_expired |-> loc[t].was_expired,
      refreshes |-> 1, refresh_raised |-> raised,
      saved |-> saved, result |-> result ]

\* variant: a per-account lock, no call starts while another is in flight
\* for the same email
gac_load_locked(t, email, surface) ==
    /\ FirstFree(t)
    /\ \A u \in Threads : IF pc[u] = "idle" THEN TRUE ELSE loc[u].email # email
    /\ LET creds == _load_tokens(tokens, email) IN
       IF creds # None /\ needs_refresh(The(creds), now)
       THEN /\ pc' = [pc EXCEPT ![t] = "refresh"]
            /\ loc' = [loc EXCEPT ![t] =
                         [ op |-> "get_authenticated_client", email |-> email,
                           surface |-> surface, loaded |-> creds,
                           was_expired |-> expired(The(creds), now),
                           creds |-> The(creds) ]]
            /\ UNCHANGED ret
       ELSE /\ ret' = GacRet(email, get_authenticated_client(tokens, email, surface, now, None))
            /\ UNCHANGED <<pc, loc>>
    /\ UNCHANGED <<tokens, now, nextTok, authorized>>
    /\ UNCHANGED <<mcpVars, storeVars>>

\* get_authenticated_client up to the refresh: load, test expiry, and when no
\* refresh is due build the client and return
gac_load(t, email, surface) ==
    /\ FirstFree(t)
    /\ LET creds == _load_tokens(tokens, email) IN
       IF creds # None /\ needs_refresh(The(creds), now)
       THEN /\ pc' = [pc EXCEPT ![t] = "refresh"]
            /\ loc' = [loc EXCEPT ![t] =
                         [ op |-> "get_authenticated_client", email |-> email,
                           surface |-> surface, loaded |-> creds,
                           was_expired |-> expired(The(creds), now),
                           creds |-> The(creds) ]]
            /\ UNCHANGED ret
       ELSE /\ ret' = GacRet(email, get_authenticated_client(tokens, email, surface, now, None))
            /\ UNCHANGED <<pc, loc>>
    /\ UNCHANGED <<tokens, now, nextTok, authorized>>
    /\ UNCHANGED <<mcpVars, storeVars>>

\* creds.refresh(Request()) answers: the credentials carry the new token
gac_refresh_ok(t, expires_in) ==
    /\ pc[t] = "refresh"
    /\ nextTok <= MaxTok
    /\ nextTok' = nextTok + 1
    /\ pc' = [pc EXCEPT ![t] = "save"]
    /\ loc' = [loc EXCEPT ![t].creds = refresh(loc[t].creds, nextTok, now, expires_in)]
    /\ UNCHANGED <<tokens, now, authorized, ret>>
    /\ UNCHANGED <<mcpVars, storeVars>>

\* creds.refresh(Request()) raises: caught, printed, None returned
gac_refresh_fails(t) ==
    /\ pc[t] = "refresh"
    /\ tokens' = gac_refresh_raised(tokens, loc[t].email).store
    /\ ret' = GacDone(t, TRUE, None, gac_refresh_raised(tokens, loc[t].email).result)
    /\ pc' = [pc EXCEPT ![t] = "idle"]
    /\ loc' = [loc EXCEPT ![t] = IdleLoc]
    /\ UNCHANGED <<now, nextTok, authorized>>
    /\ UNCHANGED <<mcpVars, storeVars>>

\* self._save_tokens(email, creds); return build(...)
gac_save(t) ==
    /\ pc[t] = "save"
    /\ tokens' = _save_tokens(tokens, loc[t].email, loc[t].creds)
    /\ ret' = GacDone(t, FALSE, _load_tokens(tokens', loc[t].email),
                      Some(build(loc[t].surface, loc[t].creds)))
    /\ pc' = [pc EXCEPT ![t] = "idle"]
    /\ loc' = [loc EXCEPT ![t] = IdleLoc]
    /\ UNCHANGED <<now, nextTok, authorized>>
    /\ UNCHANGED <<mcpVars, storeVars>>

\* remove_account: token_file.exists()
rm_check(t, email) ==
    /\ FirstFree(t)
    /\ IF is_authenticated(tokens, email)
       THEN /\ pc' = [pc EXCEPT ![t] = "unlink"]
            /\ loc' = [loc EXCEPT ![t] = [op |-> "remove_account", email |-> email]]
            /\ UNCHANGED ret
       ELSE /\ ret' = [ op |-> "remove_account", email |-> email,
                        existed |-> FALSE, result |-> TRUE ]
            /\ UNCHANGED <<pc, loc>>
    /\ UNCHANGED <<tokens, now, nextTok, authorized>>
    /\ UNCHANGED <<mcpVars, storeVars>>

\* remove_account: token_file.unlink(); a file that has gone meanwhile makes
\* unlink raise, which is caught and reported as False
rm_unlink(t) ==
    /\ pc[t] = "unlink"
    /\ IF is_authenticated(tokens, loc[t].email)
       THEN /\ tokens' = unlink(tokens, loc[t].email)
            /\ ret' = [ op |-> "remove_account", email |-> loc[t].email,
                        existed |-> TRUE, result |-> TRUE ]
       ELSE /\ UNCHANGED tokens
            /\ ret' = [ op |-> "remove_account", email |-> loc[t].email,
                        existed |-> TRUE, result |-> FALSE ]
    /\ pc' = [pc EXCEPT ![t] = "idle"]
    /\ loc' = [loc EXCEPT ![t] = IdleLoc]
    /\ UNCHANGED <<now, nextTok, authorized>>
    /\ UNCHANGED <<mcpVars, storeVars>>

NextConc ==
    \/ AtomicCall
    \/ \E t \in Threads, e \in Accounts, sf \in RequestSurfaces : gac_load(t, e, sf)
    \/ \E t \in Threads, x \in ExpiresIn : gac_refresh_ok(t, x)
    \/ \E t \in Threads : gac_refresh_fails(t)
    \/ \E t \in Threads : gac_save(t)
    \/ \E t \in Threads, e \in Accounts : rm_check(t, e)
    \/ \E t \in Threads : rm_unlink(t)
    \/ Tick

SpecConc == Init /\ [][NextConc]_vars

(***************************************************************************)
(* Properties of the AuthManager                                           *)
(***************************************************************************)
\* the step taken is a call of op that ran without interruption: every call
\* leaves its op in ret, a call split into steps moves its thread's pc, and
\* the clock stands still during a call
ReturnedAtOnce(op) == ret'.op = op /\ pc' = pc /\ now' = now

\* the last call returned was get_authenticated_client, which found a record
GacReturnedFor(kind) ==
    /\ ret.op = "get_authenticated_client"
    /\ ret.loaded # None
    /\ CASE kind = "expired_rt" -> ret.was_expired /\ The(ret.loaded).refresh_token # None
         [] kind = "expired_no_rt" -> ret.was_expired /\ The(ret.loaded).refresh_token = None
         [] kind = "fresh" -> ~ret.was_expired

\* C1: an account for which no handle_oauth_callback has succeeded has no
\* credential file, is reported not authenticated, and every
\* get_authenticated_client call for it returns None; no call in progress
\* holds credentials of it.
C1_NeverAuthorizedAbsent ==
    \A e \in Accounts \ authorized :
        /\ ~is_authenticated(tokens, e)
        /\ _load_tokens(tokens, e) = None
        /\ (ret.op = "is_authenticated" /\ ret.email = e) => ret.result = FALSE
        /\ (ret.op = "get_authenticated_client" /\ ret.email = e) => ret.result = None
        /\ \A t \in Threads :
              loc[t].op = "get_authenticated_client" => loc[t].email # e

\* a client was asked for an account never authorized, after another account
\* was authorized, and None came back
C1_Witness ==
    /\ authorized # {}
    /\ ret.op = "get_authenticated_client"
    /\ ret.email \notin authorized
    /\ ret.result = None

\* C2: a get_authenticated_client call that loaded a record with a past expiry
\* and a refresh token made exactly one refresh call; when the refresh did
\* not raise it returned a handle, had written the refreshed record, whose
\* expiry is later than the loaded one, and the handle carries the refreshed
\* token, not the loaded one.
C2_ExpiredRefreshedOnceAndPersisted ==
    GacReturnedFor("expired_rt") =>
        /\ ret.refreshes = 1
        /\ ~ret.refresh_raised =>
              /\ ret.result # None
              /\ ret.saved # None
              /\ The(The(ret.saved).expiry) > The(The(ret.loaded).expiry)
              /\ The(ret.result).token = The(ret.saved).token
              /\ The(ret.result).token # The(ret.loaded).token
              /\ _load_tokens(tokens, ret.email) = ret.saved

C2_Witness ==
    /\ GacReturnedFor("expired_rt")
    /\ ~ret.refresh_raised
    /\ ret.result # None
    /\ ret.saved # None

\* C3 as claimed: a get_authenticated_client call that loaded a record with a
\* past expiry and no refresh token returned None, made no refresh call and
\* wrote nothing.
C3_ExpiredWithoutRefreshTokenAbsent ==
    GacReturnedFor("expired_no_rt") =>
        /\ ret.result = None
        /\ ret.refreshes = 0
        /\ ret.saved = None

\* C4: a get_authenticated_client call whose refresh raises returns None (a
\* value: nothing is raised to the caller), and every credential file is what
\* it was before the call.
C4_FailedRefreshAbsentAndNotPersisted ==
    [][ (ReturnedAtOnce("get_authenticated_client") /\ ret'.refresh_raised)
        => /\ ret'.result = None
           /\ ret'.saved = None
           /\ ret'.refreshes = 1
           /\ tokens' = tokens
           /\ _load_tokens(tokens', ret'.email) = ret'.loaded ]_vars

\* a refresh failed and the expired record is still in the store
C4_Witness ==
    /\ GacReturnedFor("expired_rt")
    /\ ret.refresh_raised
    /\ ret.result = None
    /\ _load_tokens(tokens, ret.email) = ret.loaded

\* C5: a get_authenticated_client call that finds a record that is not
\* expired returns a handle on the stored token, makes no refresh call (no
\* token is issued) and writes no credential file.
C5_FreshRecordNoRefreshNoWrite ==
    [][ ( /\ ReturnedAtOnce("get_authenticated_client")
          /\ ret'.loaded # None
          /\ ~ret'.was_expired )
        => /\ tokens' = tokens
           /\ nextTok' = nextTok
           /\ ret'.refreshes = 0
           /\ ret'.saved = None
           /\ ret'.result # None
           /\ The(ret'.result).token = The(ret'.loaded).token
           /\ _load_tokens(tokens, ret'.email) = ret'.loaded ]_vars

C5_Witness ==
    /\ GacReturnedFor("fresh")
    /\ ret.result # None
    /\ ret.refreshes = 0

\* C6: a handle_oauth_callback call whose exchange or userinfo call fails, or
\* whose userinfo answer has no email, reports success=False and leaves the
\* credential store unchanged; one that reports success names the email
\* userinfo returned, changes the file of that email only, and that file
\* holds the token of this exchange.
C6_CallbackWritesOnlyOnSuccess ==
    [][ ReturnedAtOnce("handle_oauth_callback") =>
          /\ ~ret'.result.success => tokens' = tokens
          /\ ret'.outcome \in {"exchange_failed", "userinfo_failed", "no_email"}
                => ~ret'.result.success
          /\ ret'.result.success =>
                /\ ret'.result.email = ret'.outcome
                /\ \A b \in Accounts \ {ret'.result.email} : tokens'[b] = tokens[b]
                /\ _load_tokens(tokens', ret'.result.email) # None
                /\ The(_load_tokens(tokens', ret'.result.email)).token = nextTok ]_vars

\* a callback failed while the store held a record
C6_Witness ==
    /\ ret.op = "handle_oauth_callback"
    /\ ~ret.result.success
    /\ \E e \in Accounts : is_authenticated(tokens, e)

\* C7: a remove_account call returns True and leaves the account without a
\* credential file (load gives None, is_authenticated false); for an account
\* that had no file it changes nothing; a second remove_account returns True
\* again and leaves the store as the first left it.
C7_RemoveIdempotent ==
    [][ ReturnedAtOnce("remove_account") =>
          /\ ret'.result = TRUE
          /\ ~is_authenticated(tokens', ret'.email)
          /\ _load_tokens(tokens', ret'.email) = None
          /\ ~ret'.existed => tokens' = tokens
          /\ \A b \in Accounts \ {ret'.email} : tokens'[b] = tokens[b]
          /\ remove_account(tokens', ret'.email) = [store |-> tokens', result |-> TRUE] ]_vars

\* remove_account of a never authorized account returned, another account has
\* a record
C7_Witness ==
    /\ ret.op = "remove_account"
    /\ ~ret.existed
    /\ ret.result = TRUE
    /\ ret.email \notin authorized
    /\ authorized # {}

(***************************************************************************)
(* SpecStore: the credential store by itself                               *)
(***************************************************************************)
\* Credentials objects a caller may hand to _save_tokens
CredsSamples ==
    [ token : {1, 2},
      refresh_token : {None, Some("rt")},
      token_uri : {token_uri},
      client_id : {client_id},
      client_secret : {client_secret},
      scopes : {scopes, << "openid" >>},
      expiry : {None} \cup {Some(t) : t \in 1..(2 * UsPerSec - 1)} ]

\* self._save_tokens(email, creds)
store_save(email, creds) ==
    /\ tokens' = _save_tokens(tokens, email, creds)
    /\ last_saved' = [last_saved EXCEPT ![email] = Some(creds)]
    /\ ret' = [op |-> "_save_tokens", email |-> email]
    /\ UNCHANGED <<now, nextTok, authorized, pc, loc>>
    /\ UNCHANGED mcpVars

\* self._load_tokens(email)
store_load(email) ==
    /\ ret' = [op |-> "_load_tokens", email |-> email,
               result |-> _load_tokens(tokens, email)]
    /\ UNCHANGED <<tokens, now, nextTok, authorized, pc, loc, last_saved>>
    /\ UNCHANGED mcpVars

NextStore ==
    \/ \E e \in Accounts, c \in CredsSamples : store_save(e, c)
    \/ \E e \in Accounts : store_load(e)

SpecStore == Init /\ [][NextStore]_vars

\* C8: _load_tokens returns the Credentials object that was saved last for
\* the account, equal in every field (token, refresh_token, token_uri,
\* client_id, client_secret, scopes, expiry as the same instant or None), and
\* nothing of an earlier record of the account.
C8_SaveLoadRoundTrip ==
    ret.op = "_load_tokens" => ret.result = last_saved[ret.email]

\* a record with a sub-second expiry was loaded
C8_Witness ==
    /\ ret.op = "_load_tokens"
    /\ ret.result # None
    /\ The(ret.result).expiry # None
    /\ The(The(ret.result).expiry) % UsPerSec # 0
    /\ The(ret.result).token = 2

(***************************************************************************)
(* Capability modules (tools/*.py)                                         *)
(***************************************************************************)
\* the order in which _handle_call_tool asks the modules
ModuleOrder == << "account", "gmail", "calendar", "drive", "contacts", "docs", "sheets" >>
Modules == { ModuleOrder[i] : i \in 1..Len(ModuleOrder) }

\* variant: the drive module also claims a name of the docs module
tool_names_overlapping(m) ==
    CASE m = "account" -> { "list_workspace_accounts", "authenticate_workspace_account",
                            "remove_workspace_account" }
      [] m = "gmail" -> { "search_workspace_emails", "send_workspace_email",
                          "manage_workspace_draft", "manage_workspace_label",
                          "manage_workspace_label_assignment",
                          "get_workspace_gmail_settings" }
      [] m = "calendar" -> { "list_workspace_calendar_events",
                             "get_workspace_calendar_event",
                             "create_workspace_calendar_event",
                             "manage_workspace_calendar_event",
                             "delete_workspace_calendar_event" }
      [] m = "drive" -> { "list_drive_files", "search_drive_files", "upload_drive_file",
                          "download_drive_file", "delete_drive_file",
                          "create_drive_folder", "update_drive_permissions",
                          "list_workspace_documents" }
      [] m = "contacts" -> { "get_workspace_contacts" }
      [] m = "docs" -> { "create_workspace_document", "copy_workspace_document",
                         "get_workspace_document", "list_workspace_documents",
                         "insert_text_into_document", "delete_text_from_document",
                         "batch_update_document" }
      [] m = "sheets" -> { "create_workspace_spreadsheet", "get_sheet_values",
                           "batch_get_sheet_values", "update_sheet_values",
                           "batch_update_sheet_values", "append_sheet_values" }

\* the names each module's has_tool answers True for
tool_names(m) ==
    CASE m = "account" -> { "list_workspace_accounts", "authenticate_workspace_account",
                            "remove_workspace_account" }
      [] m = "gmail" -> { "search_workspace_emails", "send_workspace_email",
                          "manage_workspace_draft", "manage_workspace_label",
                          "manage_workspace_label_assignment",
                          "get_workspace_gmail_settings" }
      [] m = "calendar" -> { "list_workspace_calendar_events",
                             "get_workspace_calendar_event",
                             "create_workspace_calendar_event",
                             "manage_workspace_calendar_event",
                             "delete_workspace_calendar_event" }
      [] m = "drive" -> { "list_drive_files", "search_drive_files", "upload_drive_file",
                          "download_drive_file", "delete_drive_file",
                          "create_drive_folder", "update_drive_permissions" }
      [] m = "contacts" -> { "get_workspace_contacts" }
      [] m = "docs" -> { "create_workspace_document", "copy_workspace_document",
                         "get_workspace_document", "list_workspace_documents",
                         "insert_text_into_document", "delete_text_from_document",
                         "batch_update_document" }
      [] m = "sheets" -> { "create_workspace_spreadsheet", "get_sheet_values",
                           "batch_get_sheet_values", "update_sheet_values",
                           "batch_update_sheet_values", "append_sheet_values" }

\* the has_tool lists of the modules the server constructs
registry == [ m \in Modules |-> tool_names(m) ]

\* has_tool(name); a request without a name carries None
has_tool(m, name) == name # None /\ The(name) \in registry[m]

\* variant: the chain of the gmail module has no branch for
\* get_workspace_gmail_settings
tool_branches_without_settings(m) ==
    CASE m = "account" -> { "list_workspace_accounts", "authenticate_workspace_account",
                            "remove_workspace_account" }
      [] m = "gmail" -> { "search_workspace_emails", "send_workspace_email",
                          "manage_workspace_draft", "manage_workspace_label",
                          "manage_workspace_label_assignment" }
      [] m = "calendar" -> { "list_workspace_calendar_events",
                             "get_workspace_calendar_event",
                             "create_workspace_calendar_event",
                             "manage_workspace_calendar_event",
                             "delete_workspace_calendar_event" }
      [] m = "drive" -> { "list_drive_files", "search_drive_files", "upload_drive_file",
                          "download_drive_file", "delete_drive_file",
                          "create_drive_folder", "update_drive_permissions" }
      [] m = "contacts" -> { "get_workspace_contacts" }
      [] m = "docs" -> { "create_workspace_document", "copy_workspace_document",
                         "get_workspace_document", "list_workspace_documents",
                         "insert_text_into_document", "delete_text_from_document",
                         "batch_update_document" }
      [] m = "sheets" -> { "create_workspace_spreadsheet", "get_sheet_values",
                           "batch_get_sheet_values", "update_sheet_values",
                           "batch_update_sheet_values", "append_sheet_values" }

\* the names the if/elif chain of each module's handle_tool has a branch for
tool_branches(m) ==
    CASE m = "account" -> { "list_workspace_accounts", "authenticate_workspace_account",
                            "remove_workspace_account" }
      [] m = "gmail" -> { "search_workspace_emails", "send_workspace_email",
                          "manage_workspace_draft", "manage_workspace_label",
                          "manage_workspace_label_assignment",
                          "get_workspace_gmail_settings" }
      [] m = "calendar" -> { "list_workspace_calendar_events",
                             "get_workspace_calendar_event",
                             "create_workspace_calendar_event",
                             "manage_workspace_calendar_event",
                             "delete_workspace_calendar_event" }
      [] m = "drive" -> { "list_drive_files", "search_drive_files", "upload_drive_file",
                          "download_drive_file", "delete_drive_file",
                          "create_drive_folder", "update_drive_permissions" }
      [] m = "contacts" -> { "get_workspace_contacts" }
      [] m = "docs" -> { "create_workspace_document", "copy_workspace_document",
                         "get_workspace_document", "list_workspace_documents",
                         "insert_text_into_document", "delete_text_from_document",
                         "batch_update_document" }
      [] m = "sheets" -> { "create_workspace_spreadsheet", "get_sheet_values",
                           "batch_get_sheet_values", "update_sheet_values",
                           "batch_update_sheet_values", "append_sheet_values" }

\* the surfaces a module's handle_tool asks a handle for, in order
module_surfaces(m) ==
    CASE m = "gmail" -> << [name |-> "gmail", version |-> "v1"] >>
      [] m = "calendar" -> << [name |-> "calendar", version |-> "v3"] >>
      [] m = "drive" -> << [name |-> "drive", version |-> "v3"] >>
      [] m = "contacts" -> << [name |-> "people", version |-> "v1"] >>
      [] m = "docs" -> << [name |-> "docs", version |-> "v1"],
                          [name |-> "drive", version |-> "v3"] >>
      [] m = "sheets" -> << [name |-> "sheets", version |-> "v4"],
                            [name |-> "drive", version |-> "v3"] >>

\* the token endpoint's answer to a refresh, given the token it would issue
WithTok(answer, tok) ==
    IF answer = None THEN None
    ELSE Some([token |-> tok, expires_in |-> The(answer)])

\* a refresh that was answered used up the token the endpoint issued
issued_by(r) == IF r.refreshes = 1 /\ ~r.refresh_raised THEN 1 ELSE 0

\* the handles of a module with two surfaces, r1 being the first call
mint_second(r1, r2) ==
    [ store |-> r2.store, handles |-> << r1.result, r2.result >>,
      refreshes |-> r1.refreshes + r2.refreshes,
      issued |-> issued_by(r1) + issued_by(r2) ]

\* variant: the second handle is not asked for once the first is None
mint_first_stops_at_none(sfs, email, t, answers, tok, r1) ==
    IF Len(sfs) = 1 \/ r1.result = None
    THEN [ store |-> r1.store, handles |-> << r1.result >>,
           refreshes |-> r1.refreshes, issued |-> issued_by(r1) ]
    ELSE mint_second(r1,
                     get_authenticated_client(r1.store, email, sfs[2], t,
                                              WithTok(answers[2], tok + issued_by(r1))))

\* the handles of a module, r1 being its first get_authenticated_client call
mint_first(sfs, email, t, answers, tok, r1) ==
    IF Len(sfs) = 1
    THEN [ store |-> r1.store, handles |-> << r1.result >>,
           refreshes |-> r1.refreshes, issued |-> issued_by(r1) ]
    ELSE mint_second(r1,
                     get_authenticated_client(r1.store, email, sfs[2], t,
                                              WithTok(answers[2], tok + issued_by(r1))))

\* the get_authenticated_client calls of a handle_tool, one per surface, each
\* on the store the one before left; answers[i] is what the token endpoint
\* answers should call i refresh
mint(m, store, email, t, answers, tok) ==
    mint_first(module_surfaces(m), email, t, answers, tok,
               get_authenticated_client(store, email, module_surfaces(m)[1], t,
                                        WithTok(answers[1], tok)))

\* what a handle_tool call did: raised is TRUE when an exception left it
Handled(raised, text, store, auth_calls, refreshes, issued, third_party) ==
    [ raised |-> raised, text |-> text, store |-> store, auth_calls |-> auth_calls,
      refreshes |-> refreshes, issued |-> issued, third_party |-> third_party ]

\* the text of a result or of an exception, with the value it quotes
Text(text, detail) == << text, detail >>

\* AccountTools._remove_account, lines 142-160, r being what remove_account did
account_removed(email, r) ==
    Handled(FALSE,
            Text(IF r.result THEN "Successfully removed account"
                 ELSE "Failed to remove account", email),
            r.store, 1, 0, 0, 0)

\* AccountTools.handle_tool
account_handle_tool(name, args, store) ==
    CASE name = "list_workspace_accounts" ->
            Handled(FALSE, Text("accounts", { acc.email : acc \in list_accounts(store) }),
                    store, 1, 0, 0, 0)
      [] name = "authenticate_workspace_account" ->
            IF args.kind # "object"
            THEN Handled(FALSE, Text("Error: not an object", None), store, 0, 0, 0, 0)
            ELSE Handled(FALSE, Text("Please visit this URL to authenticate", None),
                         store, 1, 0, 0, 0)
      [] name = "remove_workspace_account" ->
            IF args.kind # "object"
            THEN Handled(FALSE, Text("Error: not an object", None), store, 0, 0, 0, 0)
            ELSE IF args.email = None
            THEN Handled(FALSE, Text("Error: email is required", None), store, 0, 0, 0, 0)
            ELSE account_removed(args.email, remove_account(store, The(args.email)))
      [] OTHER -> Handled(TRUE, Text("Unknown tool", None), store, 0, 0, 0, 0)

\* variant: the exception of a third-party call leaves handle_tool
service_operation_propagates(m, name, h, upstream) ==
    IF \E i \in 1..Len(h.handles) : h.handles[i] = None
    THEN Handled(FALSE, Text("Error: Account not authenticated", None),
                 h.store, Len(h.handles), h.refreshes, h.issued, 0)
    ELSE IF name \notin tool_branches(m)
    THEN Handled(FALSE, Text("Error: Unknown tool", None),
                 h.store, Len(h.handles), h.refreshes, h.issued, 0)
    ELSE IF upstream = "ok"
    THEN Handled(FALSE, Text("ok", None),
                 h.store, Len(h.handles), h.refreshes, h.issued, 1)
    ELSE Handled(TRUE, Text("upstream", None),
                 h.store, Len(h.handles), h.refreshes, h.issued, 1)

\* a service module's handle_tool once the handle(s) h are minted
service_operation(m, name, h, upstream) ==
    IF \E i \in 1..Len(h.handles) : h.handles[i] = None
    THEN Handled(FALSE, Text("Error: Account not authenticated", None),
                 h.store, Len(h.handles), h.refreshes, h.issued, 0)
    ELSE IF name \notin tool_branches(m)
    THEN Handled(FALSE, Text("Error: Unknown tool", None),
                 h.store, Len(h.handles), h.refreshes, h.issued, 0)
    ELSE IF upstream = "ok"
    THEN Handled(FALSE, Text("ok", None),
                 h.store, Len(h.handles), h.refreshes, h.issued, 1)
    ELSE Handled(FALSE, Text("Error: upstream", None),
                 h.store, Len(h.handles), h.refreshes, h.issued, 1)

\* variant: the handles are asked for before the email is looked at
service_handle_tool_mints_first(m, name, args, store, t, answers, tok, upstream) ==
    IF args.kind # "object"
    THEN Handled(TRUE, Text("AttributeError", None), store, 0, 0, 0, 0)
    ELSE IF args.email = None
    THEN Handled(FALSE, Text("Error: Email is required", None), store,
                 Len(module_surfaces(m)), 0, 0, 0)
    ELSE service_operation(m, name, mint(m, store, The(args.email), t, answers, tok),
                           upstream)

\* handle_tool of the gmail, calendar, drive, contacts, docs and sheets
\* modules: email, handle(s), then the operation, whose third-party call
\* answers (upstream = "ok") or raises
service_handle_tool(m, name, args, store, t, answers, tok, upstream) ==
    IF args.kind # "object"
    THEN Handled(TRUE, Text("AttributeError", None), store, 0, 0, 0, 0)
    ELSE IF args.email = None
    THEN Handled(FALSE, Text("Error: Email is required", None), store, 0, 0, 0, 0)
    ELSE service_operation(m, name, mint(m, store, The(args.email), t, answers, tok),
                           upstream)

\* module m's handle_tool
handle_tool(m, name, args, store, t, answers, tok, upstream) ==
    IF m = "account"
    THEN account_handle_tool(name, args, store)
    ELSE service_handle_tool(m, name, args, store, t, answers, tok, upstream)

\* the descriptors each module's get_tools returns, by name, in order
get_tools(m) ==
    CASE m = "account" -> << "list_workspace_accounts", "authenticate_workspace_account",
                             "remove_workspace_account" >>
      [] m = "gmail" -> << "search_workspace_emails", "send_workspace_email",
                           "manage_workspace_draft", "manage_workspace_label",
                           "manage_workspace_label_assignment",
                           "get_workspace_gmail_settings" >>
      [] m = "calendar" -> << "list_workspace_calendar_events",
                              "get_workspace_calendar_event",
                              "create_workspace_calendar_event",
                              "manage_workspace_calendar_event",
                              "delete_workspace_calendar_event" >>
      [] m = "drive" -> << "list_drive_files", "search_drive_files", "upload_drive_file",
                           "download_drive_file", "delete_drive_file",
                           "create_drive_folder", "update_drive_permissions" >>
      [] m = "contacts" -> << "get_workspace_contacts" >>
      [] m = "docs" -> << "create_workspace_document", "copy_workspace_document",
                          "get_workspace_document", "list_workspace_documents",
                          "insert_text_into_document", "delete_text_from_document",
                          "batch_update_document" >>
      [] m = "sheets" -> << "create_workspace_spreadsheet", "get_sheet_values",
                            "batch_get_sheet_values", "update_sheet_values",
                            "batch_update_sheet_values", "append_sheet_values" >>

(***************************************************************************)
(* The line-protocol server (mcp_server.py), SpecMcp                       *)
(***************************************************************************)
\* variant: the descriptors of the contacts module are left out
all_tools_without_contacts ==
    get_tools("account") \o get_tools("gmail") \o get_tools("calendar")
        \o get_tools("drive") \o get_tools("docs") \o get_tools("sheets")

\* MCPServer._get_all_tools
all_tools ==
    get_tools("account") \o get_tools("gmail") \o get_tools("calendar")
        \o get_tools("drive") \o get_tools("contacts") \o get_tools("docs")
        \o get_tools("sheets")

\* JSON-RPC error codes the server writes
INTERNAL_ERROR == -32603
METHOD_NOT_FOUND == -32601
PARSE_ERROR == -32700

RpcResult(id, result) == [ jsonrpc |-> "2.0", id |-> id, result |-> result ]
RpcError(id, code, message) ==
    [ jsonrpc |-> "2.0", id |-> id, error |-> [code |-> code, message |-> message] ]

\* the module whose handle_tool a dispatch that tries the modules in the
\* given order calls: the first one whose has_tool answers True
route(order, name) ==
    LET hits == { i \in 1..Len(order) : has_tool(order[i], name) } IN
    IF hits = {} THEN None
    ELSE Some(order[CHOOSE i \in hits : \A j \in hits : i <= j])

\* all names some module registers
AllNames == UNION { registry[m] : m \in Modules }
\* the name member: absent, a registered name, or a name nobody registered
CallNames == { None } \cup { Some(n) : n \in AllNames \cup { "no_such_tool" } }

\* per name of a request, the module the if/elif chain of _handle_call_tool
\* stops at, and the modules that claim the name
routing == [ n \in CallNames |-> route(ModuleOrder, n) ]
claiming == [ n \in CallNames |-> { c \in Modules : has_tool(c, n) } ]

\* what handling one line did besides writing: the modules that claim the
\* name, the modules whose handle_tool ran, whether it raised, the
\* AuthManager and third-party calls it made
Trace(op, claimants, handled_by, raised, auth_calls, third_party) ==
    [ op |-> op, claimants |-> claimants, handled_by |-> handled_by, raised |-> raised,
      auth_calls |-> auth_calls, third_party |-> third_party ]

\* _handle_call_tool, lines 95-108, h being what the module's handle_tool did
call_tool_response(id, claimants, m, h) ==
    [ response |-> IF h.raised THEN RpcError(id, INTERNAL_ERROR, h.text)
                   ELSE RpcResult(id, [content |-> h.text]),
      store |-> h.store, issued |-> h.issued,
      trace |-> Trace("tools/call", claimants, m, h.raised, h.auth_calls, h.third_party)
                   @@ [ refreshes |-> h.refreshes, issued |-> h.issued ] ]

\* _handle_call_tool on a request whose params is an object
_handle_call_tool(id, params, store, t, answers, tok, upstream) ==
    IF routing[params.name] = None
    THEN [ response |-> RpcError(id, INTERNAL_ERROR, Text("Unknown tool", params.name)),
           store |-> store, issued |-> 0,
           trace |-> Trace("tools/call", claiming[params.name], {}, FALSE, 0, 0) ]
    ELSE call_tool_response(id, claiming[params.name], routing[params.name],
                            handle_tool(The(routing[params.name]), The(params.name),
                                        params.arguments, store, t, answers, tok,
                                        upstream))

\* request ids: None is an absent or null id
Ids == { None, Some(1) }
\* what the token endpoint answers a refresh: an expires_in, or None (raises)
EndpointAnswers == { None } \cup { Some(x) : x \in ExpiresIn }
\* the arguments member: an object with or without an email, or no object
ToolArgs ==
    { [kind |-> "other"] }
        \cup { [kind |-> "object", email |-> e] :
                 e \in { None } \cup { Some(a) : a \in Accounts } }
\* the refreshes the handle_tool of module m can ask for on these credentials
Asked(m, creds, t) == IF needs_refresh(creds, t) THEN Len(module_surfaces(m)) ELSE 0

\* the environment a tools/call meets: the token endpoint's answers to the
\* refreshes the module's get_authenticated_client calls ask for, and whether
\* the third-party call of the operation answers; it is asked nothing unless
\* a service module is called with the email of a stored record
Envs(name, arguments, store, t) ==
    IF routing[name] = None \/ routing[name] = Some("account")
          \/ arguments.kind # "object"
    THEN { [answers |-> << None, None >>, upstream |-> "ok"] }
    ELSE IF arguments.email = None
    THEN { [answers |-> << None, None >>, upstream |-> "ok"] }
    ELSE IF _load_tokens(store, The(arguments.email)) = None
    THEN { [answers |-> << None, None >>, upstream |-> "ok"] }
    ELSE { [answers |-> a, upstream |-> u] :
             a \in { f \in [ 1..2 -> EndpointAnswers ] :
                       \A i \in 1..2 :
                          i > Asked(The(routing[name]),
                                    The(_load_tokens(store, The(arguments.email))), t)
                             => f[i] = None },
             u \in { "ok", "raises" } }

\* an iteration of run() that leaves the store alone and writes the lines ws
Wrote(ws, trace) ==
    /\ out' = ws
    /\ disp' = trace
    /\ UNCHANGED <<authVars, storeVars>>
    /\ UNCHANGED <<stdin, loop, log>>

\* run() is at readline and has not left its loop
Reading == loop.at = "readline"

\* json.loads returned an object: its id and method members (None when
\* absent) and its params member, the tool name left out
Parsed(id, method, params) ==
    req' = [ parsed |-> TRUE, id |-> id, method |-> method, params |-> params ]

\* the line was no JSON object, or there was no line
Unparsed == req' = NoReq

\* the params member of a request whose method never reads it
AnyParams == [kind |-> "any"]

\* run(): readline returns the empty string, the loop ends
read_eof ==
    /\ Reading
    /\ Unparsed
    /\ out' = << >>
    /\ disp' = Trace("eof", {}, {}, FALSE, 0, 0)
    /\ stdin' = "ended"
    /\ loop' = [at |-> "exited", by |-> "eof"]
    /\ UNCHANGED <<authVars, storeVars, log>>

\* variant: the parse failure falls to the general except clause
read_garbage_as_internal_error ==
    /\ Reading
    /\ Unparsed
    /\ Wrote(<< RpcError(None, INTERNAL_ERROR, Text("Internal error", None)) >>,
             Trace("garbage", {}, {}, FALSE, 0, 0))

\* run(): json.loads raises JSONDecodeError
read_garbage ==
    /\ Reading
    /\ Unparsed
    /\ Wrote(<< RpcError(None, PARSE_ERROR, Text("Parse error", None)) >>,
             Trace("garbage", {}, {}, FALSE, 0, 0))

\* run(): the line is JSON but no object, message.get raises
read_non_object ==
    /\ Reading
    /\ Unparsed
    /\ Wrote(<< RpcError(None, INTERNAL_ERROR, Text("Internal error", None)) >>,
             Trace("non_object", {}, {}, FALSE, 0, 0))

\* _handle_initialize
read_initialize(id) ==
    /\ Reading
    /\ Parsed(id, Some("initialize"), AnyParams)
    /\ Wrote(<< RpcResult(id, [ protocolVersion |-> "2024-11-05",
                                capabilities |-> [tools |-> << >>],
                                serverInfo |-> [ name |-> "google-workspace-mcp",
                                                 version |-> "1.0.0" ] ]) >>,
             Trace("initialize", {}, {}, FALSE, 0, 0))

\* _handle_list_tools
read_tools_list(id) ==
    /\ Reading
    /\ Parsed(id, Some("tools/list"), AnyParams)
    /\ Wrote(<< RpcResult(id, [tools |-> all_tools]) >>,
             Trace("tools/list", {}, {}, FALSE, 0, 0))

\* variant: the notification is answered like a request
read_notification_answers(id) ==
    /\ Reading
    /\ Parsed(id, Some("notifications/initialized"), AnyParams)
    /\ Wrote(<< RpcResult(id, None) >>,
             Trace("notifications/initialized", {}, {}, FALSE, 0, 0))

\* _handle_notification_initialized: nothing is written
read_notification(id) ==
    /\ Reading
    /\ Parsed(id, Some("notifications/initialized"), AnyParams)
    /\ Wrote(<< >>, Trace("notifications/initialized", {}, {}, FALSE, 0, 0))

\* _handle_request, any other method (None: no method member)
read_other_method(id, method) ==
    /\ Reading
    /\ Parsed(id, method, AnyParams)
    /\ Wrote(<< RpcError(id, METHOD_NOT_FOUND, Text("Method not found", method)) >>,
             Trace("other", {}, {}, FALSE, 0, 0))

\* tools/call whose params member is no object: params.get raises outside
\* the try of _handle_call_tool and run() reports it
read_tools_call_bad_params(id) ==
    /\ Reading
    /\ Parsed(id, Some("tools/call"), [kind |-> "other"])
    /\ Wrote(<< RpcError(None, INTERNAL_ERROR, Text("Internal error", None)) >>,
             Trace("tools/call without params object", {}, {}, FALSE, 0, 0))

\* the iteration of run() for a tools/call that _handle_call_tool answered
tools_call_done(r) ==
    /\ nextTok + r.issued <= MaxTok + 1
    /\ out' = << r.response >>
    /\ disp' = r.trace
    /\ tokens' = r.store
    /\ nextTok' = nextTok + r.issued
    /\ UNCHANGED <<now, authorized, pc, loc, ret>>
    /\ UNCHANGED <<storeVars, stdin, loop, log>>

\* tools/call: dispatch, the module's handle_tool, the response
read_tools_call(id, name, arguments, answers, upstream) ==
    /\ Reading
    /\ Parsed(id, Some("tools/call"), [kind |-> "object", arguments |-> arguments])
    /\ tools_call_done(_handle_call_tool(id, [name |-> name, arguments |-> arguments],
                                         tokens, now, answers, nextTok, upstream))

\* the accounts the web app authorized before the server started
Enrolled == { "a@x.com" }

\* the server starts on the token directory the web app left: an enrolled
\* account holds the tokens of a callback at time 0, if it was authorized
InitMcp ==
    /\ \E rec \in [ Enrolled -> { None } \cup
                      { Some([rt |-> rt, expires_in |-> x]) :
                          rt \in { None, Some("rt") }, x \in ExpiresIn } ] :
          /\ tokens = [ e \in Accounts |->
                          IF e \notin Enrolled \/ rec[e] = None THEN None
                          ELSE Some(token_data(flow_credentials(
                                   1, The(rec[e]).rt, 0, The(rec[e]).expires_in))) ]
          /\ authorized = { e \in Enrolled : rec[e] # None }
    /\ now \in { 0, MaxTime * UsPerSec }
    /\ nextTok = 2
    /\ pc = [t \in Threads |-> "idle"]
    /\ loc = [t \in Threads |-> IdleLoc]
    /\ ret = NoRet
    /\ last_saved = [e \in Accounts |-> None]
    /\ out = << >>
    /\ disp = [op |-> "none"]
    /\ req = NoReq
    /\ stdin = "open"
    /\ loop = AtReadline
    /\ log = << >>

NextMcp ==
    \/ read_eof
    \/ read_garbage
    \/ read_non_object
    \/ \E id \in Ids : read_initialize(id)
    \/ \E id \in Ids : read_tools_list(id)
    \/ \E id \in Ids : read_notification(id)
    \/ \E id \in Ids, method \in { None, Some("ping") } : read_other_method(id, method)
    \/ \E id \in Ids : read_tools_call_bad_params(id)
    \/ \E id \in Ids, name \in CallNames, arguments \in ToolArgs :
          \E env \in Envs(name, arguments, tokens, now) :
             read_tools_call(id, name, arguments, env.answers, env.upstream)

SpecMcp == InitMcp /\ [][NextMcp]_vars

(***************************************************************************)
(* Properties of the dispatcher                                            *)
(***************************************************************************)
\* the dispatch order with module m moved to the front
TriedFirst(m) ==
    << m >> \o SelectSeq(ModuleOrder, LAMBDA x : x # m)

\* the dispatch order reversed
Reversed ==
    [ i \in 1..Len(ModuleOrder) |-> ModuleOrder[Len(ModuleOrder) + 1 - i] ]

\* no name is claimed by two modules, a registered name by exactly one
NamesUnique ==
    /\ \A n \in CallNames : Cardinality({ m \in Modules : has_tool(m, n) }) <= 1
    /\ \A n \in AllNames : Cardinality({ m \in Modules : has_tool(m, Some(n)) }) = 1

\* the module a name is routed to is the same whichever module is tried
\* first, and the same with the modules tried in reverse
OrderFree ==
    \A n \in CallNames :
       /\ route(Reversed, n) = route(ModuleOrder, n)
       /\ \A m \in Modules : route(TriedFirst(m), n) = route(ModuleOrder, n)

\* the last line read was a tools/call with a params object
Dispatched == disp.op = "tools/call"

\* C9: operation names are globally unique across the seven capability
\* modules: for every name at most one module's has_tool answers True (and
\* exactly one for a registered name); a tools/call with a registered name
\* runs the handle_tool of exactly one module, the one that claims the name;
\* and the module chosen is the same whichever module the dispatcher tries
\* first, and the same when it tries them in reverse.
C9_NamesUniqueDispatchOrderFree ==
    /\ NamesUnique
    /\ OrderFree
    /\ (Dispatched /\ disp.claimants # {}) =>
          /\ Cardinality(disp.handled_by) = 1
          /\ disp.handled_by = disp.claimants

\* a registered name of the module tried last was dispatched to that module
\* alone, and a result came back
C9_Witness ==
    /\ Dispatched
    /\ disp.claimants = { "sheets" }
    /\ disp.handled_by = { "sheets" }
    /\ Len(out) = 1
    /\ "result" \in DOMAIN out[1]

\* C10 (as claimed): a tools/call whose name no module claims is answered by
\* one JSON-RPC error response (an error member, no result member), runs no
\* module's handle_tool and makes no AuthManager call, and the code of its
\* error differs from the code of the error that answered a tools/call whose
\* module handler failed just before it.
C10_UnknownToolErrorCodeDistinct ==
    [][ (disp'.op = "tools/call" /\ disp'.claimants = {}) =>
           /\ Len(out') = 1
           /\ "error" \in DOMAIN out'[1]
           /\ "result" \notin DOMAIN out'[1]
           /\ disp'.handled_by = {}
           /\ disp'.auth_calls = 0
           /\ (Dispatched /\ disp.raised) => out'[1].error.code # out[1].error.code
      ]_vars

(***************************************************************************)
(* Properties of the line protocol                                         *)
(***************************************************************************)
\* the descriptors of the first i modules, counted
RECURSIVE descriptor_count(_)
descriptor_count(i) ==
    IF i = 0 THEN 0 ELSE Len(get_tools(ModuleOrder[i])) + descriptor_count(i - 1)

\* the descriptors of the first i modules, in registration order
RECURSIVE descriptors(_)
descriptors(i) ==
    IF i = 0 THEN << >> ELSE descriptors(i - 1) \o get_tools(ModuleOrder[i])

\* the last line was answered by exactly one success response
OneResult == Len(out) = 1 /\ "result" \in DOMAIN out[1] /\ "error" \notin DOMAIN out[1]

\* the last line was answered by exactly one error response
OneError == Len(out) = 1 /\ "error" \in DOMAIN out[1] /\ "result" \notin DOMAIN out[1]

\* C11: the response to tools/list carries a tools list as long as the
\* descriptor counts of all registered modules added up, in which no name
\* occurs twice, and it is the same list (the modules' descriptors in
\* registration order) in every state a tools/list is answered in, whatever
\* was handled before.
C11_ToolsListCompleteUniqueStable ==
    disp.op = "tools/list" =>
       /\ OneResult
       /\ Len(out[1].result.tools) = descriptor_count(Len(ModuleOrder))
       /\ \A i, j \in 1..Len(out[1].result.tools) :
             i # j => out[1].result.tools[i] # out[1].result.tools[j]
       /\ out[1].result.tools = descriptors(Len(ModuleOrder))

\* a tools/list is answered after a tools/call refreshed an account's tokens
C11_Witness ==
    /\ disp.op = "tools/list"
    /\ OneResult
    /\ Len(out[1].result.tools) = 35
    /\ nextTok > 2

\* C12: a line that is no parseable JSON is answered by exactly one response,
\* an error with code -32700 and a null id, and the loop goes on: the next
\* line can be read and answered.
C12_GarbageOneParseErrorLoopGoesOn ==
    disp.op = "garbage" =>
       /\ OneError
       /\ out[1].error.code = PARSE_ERROR
       /\ out[1].id = None
       /\ Reading
       /\ ENABLED read_tools_list(Some(1))

\* an unparseable line was just answered
C12_Witness ==
    /\ disp.op = "garbage"
    /\ req = NoReq
    /\ Len(out) = 1
    /\ out[1].error.code = -32700

\* the methods that are answered by their own handler
AnsweredMethods == { Some("initialize"), Some("tools/list"), Some("tools/call") }

\* C13: the method of a parsed request decides how many responses are
\* written: exactly one for initialize, tools/list and tools/call, none for
\* notifications/initialized, and for every other method, an absent one
\* included, exactly one error response with code -32601.
C13_ResponsesByMethod ==
    req.parsed =>
       /\ req.method \in AnsweredMethods => Len(out) = 1
       /\ req.method = Some("notifications/initialized") => out = << >>
       /\ req.method \notin AnsweredMethods \cup { Some("notifications/initialized") } =>
             /\ OneError
             /\ out[1].error.code = METHOD_NOT_FOUND

\* a request without a method member was answered "method not found"
C13_Witness ==
    /\ req.parsed
    /\ req.method = None
    /\ OneError
    /\ out[1].error.code = -32601

\* C14 (as claimed): every response written for a line that parsed to a
\* request carries the id of that request (null when it has none), success
\* and error responses alike, whatever the shape of the params member.
C14_ResponseEchoesRequestId ==
    req.parsed => \A i \in 1..Len(out) : out[i].id = req.id

(***************************************************************************)
(* run() step by step (SpecLoop): readline, then the handling of the line  *)
(* read, then the write and flush of its response                          *)
(***************************************************************************)
\* what a line can be, as far as run() tells lines apart
LineKinds ==
    { "garbage", "non_object", "initialize", "tools/list", "notifications/initialized",
      "other method", "tools/call", "tools/call unknown tool", "tools/call failing" }

\* the responses run() writes for a line: none when _handle_request returns
\* None, else one, also from either except clause
responses(kind) == IF kind = "notifications/initialized" THEN 0 ELSE 1

\* the lines read so far
nread == Cardinality({ i \in 1..Len(log) : log[i].ev = "read" })

Event(ev, n) == [ev |-> ev, n |-> n]

\* the steps of SpecLoop leave the rest alone
LoopOnly == UNCHANGED <<authVars, storeVars, out, disp, req>>

\* the peer closes the stream: from now on readline returns the empty string
close_stdin ==
    /\ stdin = "open"
    /\ stdin' = "ended"
    /\ UNCHANGED <<loop, log>>
    /\ LoopOnly

\* variant: lines are read while the line before is still being handled
loop_readline_ahead(kind) ==
    /\ loop.at # "exited"
    /\ stdin = "open"
    /\ nread < MaxLines
    /\ loop' = [at |-> "handle", n |-> nread + 1, kind |-> kind]
    /\ log' = Append(log, Event("read", nread + 1))
    /\ UNCHANGED stdin
    /\ LoopOnly

\* line = sys.stdin.readline() returns a line
loop_readline(kind) ==
    /\ loop.at = "readline"
    /\ stdin = "open"
    /\ nread < MaxLines
    /\ loop' = [at |-> "handle", n |-> nread + 1, kind |-> kind]
    /\ log' = Append(log, Event("read", nread + 1))
    /\ UNCHANGED stdin
    /\ LoopOnly

\* variant: the loop stops reading after a line it could not handle
loop_eof_or_bad_line ==
    /\ loop.at = "readline"
    /\ stdin = "ended" \/ (log # << >> /\ log[Len(log)].ev = "write")
    /\ loop' = [at |-> "exited", by |-> "eof"]
    /\ UNCHANGED <<stdin, log>>
    /\ LoopOnly

\* line = sys.stdin.readline() returns the empty string: break
loop_eof ==
    /\ loop.at = "readline"
    /\ stdin = "ended"
    /\ loop' = [at |-> "exited", by |-> "eof"]
    /\ UNCHANGED <<stdin, log>>
    /\ LoopOnly

\* the rest of the iteration: the line is parsed and handled, its response,
\* if any, written and flushed, and the loop is back at readline
loop_respond ==
    /\ loop.at = "handle"
    /\ log' = Append(log, Event(IF responses(loop.kind) = 1 THEN "write" ELSE "none",
                                loop.n))
    /\ loop' = AtReadline
    /\ UNCHANGED stdin
    /\ LoopOnly

\* SIGINT or SIGTERM: _signal_handler calls sys.exit(0) wherever run() stands
loop_signal ==
    /\ loop.at # "exited"
    /\ loop' = [at |-> "exited", by |-> "signal"]
    /\ UNCHANGED <<stdin, log>>
    /\ LoopOnly

NextLoop ==
    \/ close_stdin
    \/ \E kind \in LineKinds : loop_readline(kind)
    \/ loop_eof
    \/ loop_respond
    \/ loop_signal

SpecLoop == Init /\ [][NextLoop]_vars

\* every iteration that has begun ends, and an ended stream is noticed
SpecLoopFair == SpecLoop /\ WF_vars(loop_respond) /\ WF_vars(loop_eof)

\* the lines read whose iteration has not ended
InFlight ==
    { n \in 1..nread :
        ~ \E i \in 1..Len(log) : log[i].n = n /\ log[i].ev \in { "write", "none" } }

\* C15: the loop handles one line at a time: the history is read 1, the
\* end of line 1 (its response flushed, or nothing to write), read 2, the
\* end of line 2, and so on, so that the response to line n is flushed before
\* line n+1 is read, responses come out in the order of their requests, and
\* at most one line is in flight, the one run() holds.
C15_OneLineAtATimeInOrder ==
    /\ \A i \in 1..Len(log) :
          IF i % 2 = 1
          THEN log[i] = Event("read", (i + 1) \div 2)
          ELSE log[i].ev \in { "write", "none" } /\ log[i].n = i \div 2
    /\ Cardinality(InFlight) <= 1
    /\ loop.at = "handle" => InFlight = { loop.n }
    /\ loop.at = "readline" => InFlight = {}

\* two lines were answered in turn and a third is being handled
C15_Witness ==
    /\ Len(log) = 5
    /\ log[2] = Event("write", 1)
    /\ log[4] = Event("write", 2)
    /\ loop.at = "handle"
    /\ loop.n = 3

\* C16: run() leaves its loop exactly when the input stream has ended or a
\* signal is delivered: once no more lines arrive the loop eventually exits,
\* and it exits in no other way, whatever the line it just read was (garbage,
\* no object, an unknown method, an unknown tool, a failing tool call).
C16_ExitsExactlyAtEndOfInput ==
    /\ (stdin = "ended") ~> (loop.at = "exited")
    /\ [][ (loop.at # "exited" /\ loop'.at = "exited") =>
              \/ loop'.by = "signal"
              \/ loop'.by = "eof" /\ stdin = "ended" /\ loop.at = "readline"
         ]_vars

\* the loop ended on the end of input after a line that was answered
C16_Witness ==
    /\ loop.at = "exited"
    /\ loop.by = "eof"
    /\ stdin = "ended"
    /\ Len(log) >= 2
    /\ log[Len(log)].ev = "write"

(***************************************************************************)
(* Properties of the capability modules behind the dispatcher              *)
(***************************************************************************)
\* the last line was a tools/call that reached a module's handle_tool with
\* an arguments object
HandledObject ==
    /\ Dispatched
    /\ disp.handled_by # {}
    /\ req.params.arguments.kind = "object"

\* ... with an arguments object that carries no email
HandledWithoutEmail == HandledObject /\ req.params.arguments.email = None

\* the text of the result a tools/call was answered with says "Error"
ErrorTexts ==
    { "Error: not an object", "Error: email is required", "Error: Email is required",
      "Error: Account not authenticated", "Error: Unknown tool", "Error: upstream",
      "Failed to remove account" }
ErrorResult == OneResult /\ out[1].result.content[1] \in ErrorTexts

\* C17 (as claimed): whichever module handles it, the account module
\* included, an operation invoked with arguments that carry no account
\* identity returns an error result and makes no AuthManager call and no
\* third-party call.
C17_NoIdentityNoCallsAnyModule ==
    HandledWithoutEmail =>
       /\ ErrorResult
       /\ disp.auth_calls = 0
       /\ disp.third_party = 0

\* C17 (amended): for the six service modules (gmail, calendar, drive,
\* contacts, docs, sheets) an operation invoked with an arguments object that
\* carries no email returns the error result "Email is required" and
\* makes no AuthManager call and no third-party call.
C17_NoIdentityNoCallsServiceModules ==
    (HandledWithoutEmail /\ disp.handled_by # { "account" }) =>
       /\ ErrorResult
       /\ out[1].result.content = Text("Error: Email is required", None)
       /\ disp.auth_calls = 0
       /\ disp.third_party = 0

\* an operation of the sheets module was invoked without an email
C17_Witness ==
    /\ HandledWithoutEmail
    /\ disp.handled_by = { "sheets" }
    /\ ErrorResult
    /\ disp.auth_calls = 0

\* the texts a module reports a failure with: identity missing, account not
\* authenticated, third-party call failed
ReportedFailures ==
    { "Error: email is required", "Error: Email is required",
      "Error: Account not authenticated", "Error: upstream" }

\* C18: when a tools/call reaches a capability module and the module reports
\* a failure (identity missing, account not authenticated, third-party call
\* failed), the line is answered with a JSON-RPC error object, never with a
\* result member that carries the failure.
C18_ModuleFailureAnsweredWithErrorObject ==
    (Dispatched /\ disp.handled_by # {}) =>
       \A i \in 1..Len(out) :
          "result" \in DOMAIN out[i] => out[i].result.content[1] \notin ReportedFailures

\* C20: no capability module lets an exception reach the dispatcher: for
\* every module and every operation name it claims, handle_tool called with
\* an arguments object returns a result value, whatever the handle minting
\* did (no handle, refreshed, refresh failed) and whatever the third-party
\* call did (success or raised failure); the line is answered with that
\* result.
C20_HandleToolNeverRaises ==
    HandledObject =>
       /\ ~disp.raised
       /\ OneResult
       /\ out[1].id = req.id

\* a third-party call raised inside handle_tool and a result came back
C20_Witness ==
    /\ HandledObject
    /\ ~disp.raised
    /\ disp.third_party > 0
    /\ OneResult
    /\ out[1].result.content = Text("Error: upstream", None)

(***************************************************************************)
(* The HTTP routes of the web app (routes/*.py)                            *)
(***************************************************************************)
HTTP_OK == 200
HTTP_BAD_REQUEST == 400
HTTP_UNAUTHORIZED == 401
HTTP_NOT_FOUND == 404
HTTP_SERVER_ERROR == 500

\* a route: the body fields it tests before it asks for a handle, the
\* surfaces it asks a handle for, the fields it tests per action once it
\* holds the handles (no action: the route has none), and whether it tests
\* that the file to upload exists
Route(name, required, surfaces, actions, file) ==
    [ name |-> name, required |-> required, surfaces |-> surfaces,
      actions |-> actions, file |-> file ]

NoActions == [ a \in {} |-> {} ]
Surface(name, version) == [name |-> name, version |-> version]

gmail_routes ==
    { Route("search_emails", { "email" }, << Surface("gmail", "v1") >>, NoActions, FALSE),
      Route("send_email", { "email", "to", "subject", "body" },
            << Surface("gmail", "v1") >>, NoActions, FALSE),
      Route("manage_draft", { "email", "action" }, << Surface("gmail", "v1") >>,
            [ a \in { "create", "list", "get" } |->
                CASE a = "create" -> { "to", "subject", "body" }
                  [] a = "list" -> {}
                  [] a = "get" -> { "draftId" } ],
            FALSE),
      Route("manage_label", { "email", "action" }, << Surface("gmail", "v1") >>,
            [ a \in { "create", "list" } |->
                CASE a = "create" -> { "name" }
                  [] a = "list" -> {} ],
            FALSE) }

calendar_routes ==
    { Route("list_events", { "email" }, << Surface("calendar", "v3") >>, NoActions, FALSE),
      Route("get_event", { "email" }, << Surface("calendar", "v3") >>, NoActions, FALSE),
      Route("create_event", { "email", "summary", "start", "end" },
            << Surface("calendar", "v3") >>, NoActions, FALSE),
      Route("update_event", { "email" }, << Surface("calendar", "v3") >>, NoActions, FALSE),
      Route("delete_event", { "email" }, << Surface("calendar", "v3") >>, NoActions, FALSE) }

drive_routes ==
    { Route("list_files", { "email" }, << Surface("drive", "v3") >>, NoActions, FALSE),
      Route("search_files", { "email", "query" }, << Surface("drive", "v3") >>,
            NoActions, FALSE),
      Route("upload_file", { "email", "filePath" }, << Surface("drive", "v3") >>,
            NoActions, TRUE),
      Route("download_file", { "email" }, << Surface("drive", "v3") >>, NoActions, FALSE),
      Route("delete_file", { "email" }, << Surface("drive", "v3") >>, NoActions, FALSE),
      Route("create_folder", { "email", "name" }, << Surface("drive", "v3") >>,
            NoActions, FALSE) }

contacts_routes ==
    { Route("get_contacts", { "email" }, << Surface("people", "v1") >>, NoActions, FALSE) }

docs_routes ==
    { Route("create_document", { "email", "title" }, << Surface("drive", "v3") >>,
            NoActions, FALSE),
      Route("list_documents", { "email" }, << Surface("drive", "v3") >>, NoActions, FALSE),
      Route("get_document", { "email" },
            << Surface("docs", "v1"), Surface("drive", "v3") >>, NoActions, FALSE) }

\* the routes that work on an account's data, as app.py registers them
ServiceRoutes ==
    gmail_routes \cup calendar_routes \cup drive_routes \cup contacts_routes
        \cup docs_routes

\* jsonify(body), status
Response(status, body) == [ status |-> status, body |-> body ]
ErrorBody(text) == [ error |-> Text(text, None) ]
OkBody == [ message |-> Text("ok", None) ]

\* what a route did: its response, the store it left, the handles it asked
\* for, whether one of them was None, the refreshes sent to the token
\* endpoint and the tokens it issued, the third-party calls the route made
\* and whether one raised
Served(response, store, handles_requested, absent, refreshes, issued, third_party, raised) ==
    [ response |-> response, store |-> store,
      handles_requested |-> handles_requested, absent |-> absent,
      refreshes |-> refreshes, issued |-> issued, third_party |-> third_party,
      raised |-> raised ]

\* the handles of a route, asked for one surface after the other
mint_surfaces(sfs, store, email, t, answers, tok) ==
    mint_first(sfs, email, t, answers, tok,
               get_authenticated_client(store, email, sfs[1], t,
                                        WithTok(answers[1], tok)))

\* variant: the exception of a third-party call leaves the route
route_with_handles_raising(rt, body, h, upstream, file_exists) ==
    IF \E i \in 1..Len(h.handles) : h.handles[i] = None
    THEN Served(Response(HTTP_UNAUTHORIZED, ErrorBody("Account not authenticated")),
                h.store, Len(h.handles), TRUE, h.refreshes, h.issued, 0, FALSE)
    ELSE IF rt.actions # NoActions /\ The(body.action) \notin DOMAIN rt.actions
    THEN Served(Response(HTTP_BAD_REQUEST, ErrorBody("Unknown action")),
                h.store, Len(h.handles), FALSE, h.refreshes, h.issued, 0, FALSE)
    ELSE IF rt.actions # NoActions /\ ~(rt.actions[The(body.action)] \subseteq body.has)
    THEN Served(Response(HTTP_BAD_REQUEST, ErrorBody("Missing required fields")),
                h.store, Len(h.handles), FALSE, h.refreshes, h.issued, 0, FALSE)
    ELSE IF rt.file /\ ~file_exists
    THEN Served(Response(HTTP_NOT_FOUND, ErrorBody("File not found")),
                h.store, Len(h.handles), FALSE, h.refreshes, h.issued, 0, FALSE)
    ELSE IF upstream = "ok"
    THEN Served(Response(HTTP_OK, OkBody),
                h.store, Len(h.handles), FALSE, h.refreshes, h.issued, 1, FALSE)
    ELSE Served(Response(HTTP_SERVER_ERROR, [ html |-> Text("Internal Server Error", None) ]),
                h.store, Len(h.handles), FALSE, h.refreshes, h.issued, 1, TRUE)

\* a route once it asked for its handle(s) h: 401 without one, then the
\* tests of the action's fields or of the file, then the third-party calls
route_with_handles(rt, body, h, upstream, file_exists) ==
    IF \E i \in 1..Len(h.handles) : h.handles[i] = None
    THEN Served(Response(HTTP_UNAUTHORIZED, ErrorBody("Account not authenticated")),
                h.store, Len(h.handles), TRUE, h.refreshes, h.issued, 0, FALSE)
    ELSE IF rt.actions # NoActions /\ The(body.action) \notin DOMAIN rt.actions
    THEN Served(Response(HTTP_BAD_REQUEST, ErrorBody("Unknown action")),
                h.store, Len(h.handles), FALSE, h.refreshes, h.issued, 0, FALSE)
    ELSE IF rt.actions # NoActions /\ ~(rt.actions[The(body.action)] \subseteq body.has)
    THEN Served(Response(HTTP_BAD_REQUEST, ErrorBody("Missing required fields")),
                h.store, Len(h.handles), FALSE, h.refreshes, h.issued, 0, FALSE)
    ELSE IF rt.file /\ ~file_exists
    THEN Served(Response(HTTP_NOT_FOUND, ErrorBody("File not found")),
                h.store, Len(h.handles), FALSE, h.refreshes, h.issued, 0, FALSE)
    ELSE IF upstream = "ok"
    THEN Served(Response(HTTP_OK, OkBody),
                h.store, Len(h.handles), FALSE, h.refreshes, h.issued, 1, FALSE)
    ELSE Served(Response(HTTP_SERVER_ERROR, ErrorBody("upstream")),
                h.store, Len(h.handles), FALSE, h.refreshes, h.issued, 1, TRUE)

\* a route handler: the body read, the fields tested, the handles asked for
handle_route(rt, body, store, t, answers, tok, upstream, file_exists) ==
    IF body.kind # "object"
    THEN Served(Response(HTTP_SERVER_ERROR, ErrorBody("AttributeError")),
                store, 0, FALSE, 0, 0, 0, FALSE)
    ELSE IF ~(rt.required \subseteq body.has)
    THEN Served(Response(HTTP_BAD_REQUEST, ErrorBody("Missing required fields")),
                store, 0, FALSE, 0, 0, 0, FALSE)
    ELSE route_with_handles(rt, body,
                            mint_surfaces(rt.surfaces, store, The(body.email), t,
                                          answers, tok),
                            upstream, file_exists)

\* the body fields a route looks at
Fields(rt) == rt.required \cup UNION { rt.actions[a] : a \in DOMAIN rt.actions }

\* the action values of the descriptors of manage_workspace_draft and
\* manage_workspace_label, and a word that is none of them
ActionWords == { "create", "update", "list", "get", "delete", "rename" }

\* the values of the action field a request may carry
ActionsOf(rt) ==
    IF rt.actions = NoActions THEN { None }
    ELSE { Some(a) : a \in ActionWords }

\* request.get_json() or {}: the fields that are present and truthy, with the
\* values of email and action
Body(has, email, action) ==
    [ kind |-> "object", has |-> has,
      email |-> IF "email" \in has THEN email ELSE None,
      action |-> IF "action" \in has THEN action ELSE None ]

\* the bodies a route is sent: no JSON object, or an object with all of the
\* route's fields or all but one
RouteBodies(rt) ==
    { [kind |-> "other"] }
        \cup { Body(has, Some(e), a) :
                 has \in { Fields(rt) } \cup { Fields(rt) \ { f } : f \in Fields(rt) },
                 e \in Accounts, a \in ActionsOf(rt) }

\* the route gets past the tests it makes before it asks for a handle
PastFirstTests(rt, body) == body.kind = "object" /\ rt.required \subseteq body.has

\* the refreshes a route can ask for on these credentials
AskedByRoute(rt, creds, t) == IF needs_refresh(creds, t) THEN Len(rt.surfaces) ELSE 0

\* the environment a request meets: whether the file to upload exists, the
\* token endpoint's answers to the refreshes asked for, whether the
\* third-party call answers
RouteEnvs(rt, body, store, t) ==
    IF ~PastFirstTests(rt, body)
    THEN { [answers |-> << None, None >>, upstream |-> "ok", file_exists |-> TRUE] }
    ELSE IF _load_tokens(store, The(body.email)) = None
    THEN { [answers |-> << None, None >>, upstream |-> "ok", file_exists |-> x] :
             x \in IF rt.file THEN BOOLEAN ELSE { TRUE } }
    ELSE { [answers |-> a, upstream |-> u, file_exists |-> x] :
             a \in { f \in [ 1..2 -> EndpointAnswers ] :
                       \A i \in 1..2 :
                          i > AskedByRoute(rt, The(_load_tokens(store, The(body.email))), t)
                             => f[i] = None },
             u \in { "ok", "raises" },
             x \in IF rt.file THEN BOOLEAN ELSE { TRUE } }

\* what the request lacks of the tests a route makes once it holds its
\* handles: nothing, a known action, a field of the action, the file
Late(rt, body, file_exists) ==
    IF ~PastFirstTests(rt, body) THEN "none"
    ELSE IF rt.actions # NoActions /\ The(body.action) \notin DOMAIN rt.actions
    THEN "action"
    ELSE IF rt.actions # NoActions /\ ~(rt.actions[The(body.action)] \subseteq body.has)
    THEN "field"
    ELSE IF rt.file /\ ~file_exists THEN "file"
    ELSE "none"

\* the request as the route read it: the route's handler, the action named,
\* the fields the route always requires that are missing, and what the
\* request lacks of the later tests
RouteRequest(handler, kind, action, missing, late) ==
    [ parsed |-> TRUE, route |-> handler, kind |-> kind, action |-> action,
      missing |-> missing, late |-> late ]

\* a request served by a route of one of the services
api_served(rt, body, late, r) ==
    /\ nextTok + r.issued <= MaxTok + 1
    /\ out' = << r.response >>
    /\ disp' = [ op |-> "api", surfaces |-> Len(rt.surfaces),
                 handles_requested |-> r.handles_requested,
                 absent |-> r.absent, refreshes |-> r.refreshes,
                 third_party |-> r.third_party,
                 raised |-> r.raised ]
    /\ req' = RouteRequest(rt.name, body.kind,
                           IF body.kind = "object" THEN body.action ELSE None,
                           IF body.kind = "object" THEN rt.required \ body.has ELSE {},
                           late)
    /\ tokens' = r.store
    /\ nextTok' = nextTok + r.issued
    /\ UNCHANGED <<now, authorized, pc, loc, ret>>
    /\ UNCHANGED <<storeVars, stdin, loop, log>>

api_route(rt, body, env) ==
    api_served(rt, body, Late(rt, body, env.file_exists),
               handle_route(rt, body, tokens, now, env.answers, nextTok,
                            env.upstream, env.file_exists))

\* a request served by a route of account_routes.py, which asks for no handle
accounts_served(handler, kind, response, store) ==
    /\ out' = << response >>
    /\ disp' = [ op |-> "api accounts", surfaces |-> 0,
                 handles_requested |-> 0, absent |-> FALSE, refreshes |-> 0,
                 third_party |-> 0, raised |-> FALSE ]
    /\ req' = RouteRequest(handler, kind, None, {}, "none")
    /\ tokens' = store
    /\ UNCHANGED <<now, nextTok, authorized, pc, loc, ret>>
    /\ UNCHANGED <<storeVars, stdin, loop, log>>

\* GET /api/accounts
api_list_accounts ==
    accounts_served("list_accounts", "none",
                    Response(HTTP_OK,
                             [ accounts |-> Text("accounts",
                                                 { acc.email : acc \in list_accounts(tokens) }) ]),
                    tokens)

\* POST /api/accounts/authenticate: success says whether get_auth_url built
\* the URL
api_authenticate_account(kind, success) ==
    accounts_served("authenticate_account", kind,
                    IF kind # "object"
                    THEN Response(HTTP_SERVER_ERROR, ErrorBody("AttributeError"))
                    ELSE IF ~success
                    THEN Response(HTTP_BAD_REQUEST, ErrorBody("Failed to generate auth URL"))
                    ELSE Response(HTTP_OK, [ authUrl |-> Text("auth", None) ]),
                    tokens)

\* DELETE /api/accounts/<email>
api_remove_account(email) ==
    accounts_served("remove_account", "none",
                    IF remove_account(tokens, email).result
                    THEN Response(HTTP_OK,
                                  [ message |-> Text("Successfully removed account",
                                                     Some(email)) ])
                    ELSE Response(HTTP_BAD_REQUEST, ErrorBody("Failed to remove account")),
                    remove_account(tokens, email).store)

NextRoutes ==
    \/ \E rt \in ServiceRoutes : \E body \in RouteBodies(rt) :
          \E env \in RouteEnvs(rt, body, tokens, now) : api_route(rt, body, env)
    \/ api_list_accounts
    \/ \E kind \in { "object", "other" }, success \in BOOLEAN :
          api_authenticate_account(kind, success)
    \/ \E email \in Accounts : api_remove_account(email)

NextApi ==
    \/ NextRoutes
    \/ Tick

\* the web app serving requests one at a time on the token directory an
\* earlier run left
SpecApi == InitMcp /\ [][NextApi]_vars

(***************************************************************************)
(* Properties of the HTTP routes                                           *)
(***************************************************************************)
\* the last request was served by a route of one of the services
ApiServed == disp.op = "api"

\* the response has a status and a JSON body, which in case of an error
\* holds the message
JsonResponse ==
    /\ Len(out) = 1
    /\ DOMAIN out[1] = { "status", "body" }
    /\ "html" \notin DOMAIN out[1].body
    /\ out[1].status # HTTP_OK => DOMAIN out[1].body = { "error" }

NextBoth ==
    \/ NextMcp
    \/ NextRoutes

SpecBoth == InitMcp /\ [][NextBoth]_vars

\* a docs or sheets tool was called with an email
TwoHandleTool ==
    /\ HandledObject
    /\ disp.handled_by \in { { "docs" }, { "sheets" } }
    /\ req.params.arguments.email # None

\* one of the handles the tool asked for was None: the account has no token
\* file, or a refresh it asked for raised
ToolHandleAbsent ==
    \/ tokens[The(req.params.arguments.email)] = None
    \/ disp.refreshes > disp.issued

\* a route that works with two surfaces got past its first tests
TwoHandleRoute ==
    /\ ApiServed
    /\ disp.surfaces = 2
    /\ req.kind = "object"
    /\ req.missing = {}

\* C21: every documents and spreadsheets operation (the tools of the docs and
\* sheets modules, the get_document route) requests both of its handles
\* before it issues a third-party call; if either handle is absent it
\* returns the 'not authenticated' error (401 for the route) and issues no
\* third-party call.
C21_BothHandlesBeforeThirdParty ==
    /\ TwoHandleTool =>
          /\ disp.auth_calls = 2
          /\ ToolHandleAbsent =>
                /\ OneResult
                /\ out[1].result.content = Text("Error: Account not authenticated", None)
                /\ disp.third_party = 0
    /\ TwoHandleRoute =>
          /\ disp.handles_requested = 2
          /\ disp.absent =>
                /\ out[1].status = HTTP_UNAUTHORIZED
                /\ disp.third_party = 0

\* a docs or sheets tool whose first refresh raised and whose second was
\* answered: both handles were asked for, no third-party call was made
C21_Witness ==
    /\ TwoHandleTool
    /\ disp.refreshes = 2
    /\ disp.issued = 1
    /\ disp.auth_calls = 2
    /\ disp.third_party = 0

(***************************************************************************)
(* The operations behind handle_tool, with the arguments they read         *)
(***************************************************************************)
\* an operation of a service module: the arguments its descriptor requires
\* and the action values its descriptor lists (none: it takes no action);
\* how the code reads the action ("get": args.get('action'), "index":
\* args['action']); per action it has a branch for, the arguments it reads
\* with args[...] before its first third-party call and those it reads
\* after it; for an operation without action, the same under "-"
ToolOp(name, module, required, enum, action_by, reads, after) ==
    [ name |-> name, module |-> module, required |-> required, enum |-> enum,
      action_by |-> action_by, reads |-> reads, after |-> after ]

NoAction == "-"
Reads(fields) == [ a \in { NoAction } |-> fields ]

gmail_ops ==
    { ToolOp("search_workspace_emails", "gmail", { "email" }, {}, "none",
             Reads({}), Reads({})),
      ToolOp("send_workspace_email", "gmail", { "email", "to", "subject", "body" }, {},
             "none", Reads({ "to", "subject", "body" }), Reads({})),
      ToolOp("manage_workspace_draft", "gmail", { "email", "action" },
             { "create", "update", "list", "get", "delete" }, "get",
             [ a \in { "create", "list", "get", "update", "delete" } |->
                 CASE a = "create" -> { "to", "subject", "body" }
                   [] a = "list" -> {}
                   [] a = "get" -> { "draftId" }
                   [] a = "update" -> { "to", "subject", "body", "draftId" }
                   [] a = "delete" -> { "draftId" } ],
             [ a \in { "create", "list", "get", "update", "delete" } |-> {} ]),
      ToolOp("manage_workspace_label", "gmail", { "email", "action" },
             { "create", "list", "get", "delete" }, "get",
             [ a \in { "create", "list", "get", "delete" } |->
                 CASE a = "create" -> { "name" }
                   [] a = "list" -> {}
                   [] a = "get" -> { "labelId" }
                   [] a = "delete" -> { "labelId" } ],
             [ a \in { "create", "list", "get", "delete" } |-> {} ]),
      ToolOp("manage_workspace_label_assignment", "gmail", { "email", "messageId" }, {},
             "none", Reads({ "messageId" }), Reads({})),
      ToolOp("get_workspace_gmail_settings", "gmail", { "email" }, {}, "none",
             Reads({}), Reads({})) }

calendar_ops ==
    { ToolOp("manage_workspace_calendar_event", "calendar",
             { "email", "eventId", "action" }, { "update", "respond" }, "index",
             [ a \in { "respond", "update" } |-> { "eventId" } ],
             [ a \in { "respond", "update" } |->
                 IF a = "respond" THEN { "responseStatus" } ELSE {} ]) }

drive_ops ==
    { ToolOp("update_drive_permissions", "drive", { "email", "fileId", "action" },
             { "add", "remove", "update", "list" }, "index",
             [ a \in { "list", "add", "remove", "update" } |->
                 CASE a = "list" -> { "fileId" }
                   [] a = "add" -> { "role", "type", "fileId" }
                   [] a = "remove" -> { "fileId", "permissionId" }
                   [] a = "update" -> { "role", "fileId", "permissionId" } ],
             [ a \in { "list", "add", "remove", "update" } |-> {} ]) }

\* the operations modelled with their arguments: those of the gmail module
\* and the action-parameterized ones of the calendar and drive modules
ToolOps == gmail_ops \cup calendar_ops \cup drive_ops

\* the branch of the operation the arguments select
Branch(op, args) == IF op.action_by = "none" THEN NoAction ELSE The(args.action)

\* how far the operation gets on these arguments: "unknown action" (the else
\* branch), "KeyError" (an args[...] of a missing argument before the first
\* third-party call), "call then KeyError" (one after it), or "call"
op_outcome(op, args) ==
    IF op.action_by # "none" /\ args.action = None
    THEN IF op.action_by = "get" THEN "unknown action" ELSE "KeyError"
    ELSE IF Branch(op, args) \notin DOMAIN op.reads THEN "unknown action"
    ELSE IF ~(op.reads[Branch(op, args)] \subseteq args.has) THEN "KeyError"
    ELSE IF ~(op.after[Branch(op, args)] \subseteq args.has) THEN "call then KeyError"
    ELSE "call"

\* variant: the KeyError of a missing argument leaves handle_tool
tool_operation_unwrapped(op, args, outcome, h, upstream) ==
    IF \E i \in 1..Len(h.handles) : h.handles[i] = None
    THEN Handled(FALSE, Text("Error: Account not authenticated", None),
                 h.store, Len(h.handles), h.refreshes, h.issued, 0)
    ELSE IF outcome = "unknown action"
    THEN Handled(FALSE, Text("Error: Unknown action", args.action),
                 h.store, Len(h.handles), h.refreshes, h.issued, 0)
    ELSE IF outcome = "KeyError"
    THEN Handled(TRUE, Text("KeyError", None),
                 h.store, Len(h.handles), h.refreshes, h.issued, 0)
    ELSE IF upstream # "ok"
    THEN Handled(FALSE, Text("Error: upstream", None),
                 h.store, Len(h.handles), h.refreshes, h.issued, 1)
    ELSE IF outcome = "call then KeyError"
    THEN Handled(FALSE, Text("Error: KeyError", None),
                 h.store, Len(h.handles), h.refreshes, h.issued, 1)
    ELSE Handled(FALSE, Text("ok", None),
                 h.store, Len(h.handles), h.refreshes, h.issued, 1)

\* a service module's handle_tool once the handle(s) h are minted, the
\* operation reading its arguments inside the try
tool_operation(op, args, outcome, h, upstream) ==
    IF \E i \in 1..Len(h.handles) : h.handles[i] = None
    THEN Handled(FALSE, Text("Error: Account not authenticated", None),
                 h.store, Len(h.handles), h.refreshes, h.issued, 0)
    ELSE IF outcome = "unknown action"
    THEN Handled(FALSE, Text("Error: Unknown action", args.action),
                 h.store, Len(h.handles), h.refreshes, h.issued, 0)
    ELSE IF outcome = "KeyError"
    THEN Handled(FALSE, Text("Error: KeyError", None),
                 h.store, Len(h.handles), h.refreshes, h.issued, 0)
    ELSE IF upstream # "ok"
    THEN Handled(FALSE, Text("Error: upstream", None),
                 h.store, Len(h.handles), h.refreshes, h.issued, 1)
    ELSE IF outcome = "call then KeyError"
    THEN Handled(FALSE, Text("Error: KeyError", None),
                 h.store, Len(h.handles), h.refreshes, h.issued, 1)
    ELSE Handled(FALSE, Text("ok", None),
                 h.store, Len(h.handles), h.refreshes, h.issued, 1)

\* handle_tool of a service module on an arguments object
handle_tool_with(op, args, store, t, answers, tok, upstream) ==
    IF args.email = None
    THEN Handled(FALSE, Text("Error: Email is required", None), store, 0, 0, 0, 0)
    ELSE tool_operation(op, args, op_outcome(op, args),
                        mint(op.module, store, The(args.email), t, answers, tok),
                        upstream)

\* the arguments an operation looks at
OpFields(op) ==
    op.required \cup UNION { op.reads[a] \cup op.after[a] : a \in DOMAIN op.reads }

\* the arguments objects an operation is called with: all of its arguments
\* or all but one, the action one of its branches or another word
OpArgs(op) ==
    { Body(has, Some(e), a) :
        has \in { OpFields(op) } \cup { OpFields(op) \ { f } : f \in OpFields(op) },
        e \in Enrolled,
        a \in IF op.action_by = "none" THEN { None }
              ELSE { Some(x) : x \in DOMAIN op.reads \cup { "rename" } } }

\* tools/call of an operation with its arguments: dispatch, handle_tool, the
\* response; of the request are kept the email and the action, the action
\* values the descriptor of the tool lists and the arguments it requires
\* that are missing
read_tools_call_with(id, op, args, answers, upstream) ==
    /\ Reading
    /\ Parsed(id, Some("tools/call"),
              [ kind |-> "object",
                arguments |-> [ kind |-> "object", email |-> args.email,
                                action |-> args.action ],
                descriptor |-> [ enum |-> op.enum, lacks |-> op.required \ args.has ] ])
    /\ tools_call_done(call_tool_response(id, claiming[Some(op.name)],
                                          routing[Some(op.name)],
                                          handle_tool_with(op, args, tokens, now, answers,
                                                           nextTok, upstream)))

NextTools ==
    \/ read_eof
    \/ \E id \in Ids, op \in ToolOps : \E args \in OpArgs(op) :
          \E env \in Envs(Some(op.name), args, tokens, now) :
             read_tools_call_with(id, op, args, env.answers, env.upstream)

\* the line-protocol server answering calls of the operations in ToolOps
SpecTools == InitMcp /\ [][NextTools]_vars

\* the call was answered with a result whose text is an error of the
\* operation or of the handle it asked for
ErrorResultOfOperation ==
    /\ OneResult
    /\ out[1].result.content[1] \in
          { "Error: Unknown action", "Error: KeyError", "Error: Account not authenticated" }

\* the last call named an action-parameterized operation and gave no action
\* or one its descriptor does not list
ActionOutsideSet ==
    /\ HandledObject
    /\ "descriptor" \in DOMAIN req.params
    /\ req.params.descriptor.enum # {}
    /\ req.params.arguments.email # None
    /\ \/ req.params.arguments.action = None
       \/ The(req.params.arguments.action) \notin req.params.descriptor.enum

\* C22: for each action-parameterized operation (manage_workspace_draft,
\* manage_workspace_label, manage_workspace_calendar_event,
\* update_drive_permissions) an action value outside the operation's fixed
\* set, an absent action included, yields an error result, never an exception
\* to the dispatcher, and no third-party call is issued for it.
C22_UnknownActionIsErrorResult ==
    ActionOutsideSet =>
       /\ ~disp.raised
       /\ ErrorResultOfOperation
       /\ disp.third_party = 0

\* an operation that reads args['action'] was called without an action by an
\* authenticated account
C22_Witness ==
    /\ ActionOutsideSet
    /\ req.params.arguments.action = None
    /\ out[1].result.content = Text("Error: KeyError", None)
    /\ disp.third_party = 0

\* the last call lacked an argument the descriptor of its tool requires
ToolLacksRequired ==
    /\ HandledObject
    /\ "descriptor" \in DOMAIN req.params
    /\ req.params.descriptor.lacks # {}

\* the last request lacked a body field its route requires, always or for
\* the action it names
RouteLacksRequired ==
    /\ ApiServed
    /\ req.kind = "object"
    /\ req.missing # {} \/ req.late = "field"

\* C23: an invocation (protocol tool or HTTP route) that lacks an argument
\* its operation requires ends in a validation error (tool error result or
\* 400) and causes no outbound request to the third party: neither the
\* operation's service API call nor a token refresh is sent before the
\* missing argument is detected.
C23_MissingArgumentNoOutboundRequest ==
    /\ ToolLacksRequired =>
          /\ OneResult
          /\ out[1].result.content[1] \in
                { "Error: Email is required", "Error: KeyError", "Error: Unknown action" }
          /\ disp.third_party = 0
          /\ disp.refreshes = 0
    /\ RouteLacksRequired =>
          /\ out[1].status = HTTP_BAD_REQUEST
          /\ disp.third_party = 0
          /\ disp.refreshes = 0

(***************************************************************************)
(* Properties of the AuthManager under concurrent requests                 *)
(***************************************************************************)
\* thread t is inside a get_authenticated_client call for email that loaded
\* an expired record and is at its refresh or at its save
Refreshing(t, email) ==
    /\ pc[t] \in { "refresh", "save" }
    /\ loc[t].email = email

\* the call that returned last was a get_authenticated_client that refreshed
\* and saved
RefreshedAndSaved ==
    /\ ret.op = "get_authenticated_client"
    /\ "saved" \in DOMAIN ret
    /\ ret.refreshes = 1
    /\ ~ret.refresh_raised

Listed(accounts) == { acc.email : acc \in accounts }

\* C25: in every reachable state the set of account ids list_accounts
\* returns equals the set of ids for which is_authenticated returns true (the
\* accounts that have a credential file), each listed with authenticated:
\* true; this holds of the list a list_accounts call has just returned and of
\* the answer an is_authenticated call has just returned; membership depends
\* on the file's existence alone, not on the token's expiry or refresh token.
C25_ListedIffAuthenticated ==
    /\ Listed(list_accounts(tokens)) = { e \in Accounts : is_authenticated(tokens, e) }
    /\ \A acc \in list_accounts(tokens) : acc.authenticated
    /\ Cardinality(list_accounts(tokens)) = Cardinality(Listed(list_accounts(tokens)))
    /\ ret.op = "list_accounts" =>
          Listed(ret.result) = { e \in Accounts : tokens[e] # None }
    /\ ret.op = "is_authenticated" =>
          (ret.result <=> ret.email \in Listed(list_accounts(tokens)))

\* list_accounts has just listed an account whose token is expired and
\* cannot be refreshed
C25_Witness ==
    /\ ret.op = "list_accounts"
    /\ \E e \in Listed(ret.result) :
          /\ expired(The(_load_tokens(tokens, e)), now)
          /\ The(_load_tokens(tokens, e)).refresh_token = None

\* the state values a callback may carry: those get_auth_url issues and one
\* it never issues
CallbackStates == States \cup { "forged" }

\* C26: the authorization callback does not depend on the state value: two
\* handle_oauth_callback calls that differ only in their state argument, a
\* state never issued by get_auth_url included, have the same result and the
\* same effect on the credential store (a step that is a callback with one
\* state is also that callback with any other state); get_auth_url stores
\* nothing about the state it issues.
C26_CallbackIgnoresState ==
    [][ /\ \A s1 \in States, s2 \in CallbackStates, c \in Codes :
           /\ callback_exchange_fails(c, s1) => callback_exchange_fails(c, s2)
           /\ \A o \in { "userinfo_failed", "no_email" } :
                 callback_userinfo_fails(c, s1, o) => callback_userinfo_fails(c, s2, o)
           /\ \A e \in Accounts, rt \in { None, Some("rt") }, x \in ExpiresIn :
                 callback_succeeds(c, s1, e, rt, x) => callback_succeeds(c, s2, e, rt, x)
        /\ \A h \in Accounts \cup { "hint@x.com" }, s \in States :
              get_auth_url(h, s) => UNCHANGED <<tokens, authorized, nextTok, last_saved>>
      ]_vars

\* the first callback of a run has stored the tokens of the account userinfo
\* named, whatever state it carried
C26_Witness ==
    /\ ret.op = "handle_oauth_callback"
    /\ ret.result.success
    /\ tokens[ret.result.email] # None
    /\ \A e \in Accounts \ { ret.result.email } : tokens[e] = None
    /\ nextTok = 2

(***************************************************************************)
(* The actions of the draft and label routes and of the tools             *)
(***************************************************************************)
\* the routes that dispatch on an action, and the tool of the gmail module
\* each of them stands for
ActionRoutes == { "manage_draft", "manage_label" }
ToolOfRoute(handler) ==
    IF handler = "manage_draft" THEN "manage_workspace_draft"
    ELSE "manage_workspace_label"

\* the actions the tool has a branch for
ToolActions(name) == UNION { DOMAIN op.reads : op \in { o \in gmail_ops : o.name = name } }

\* the route holds its handle and has answered 400 "Unknown action"
RouteRejectedAction ==
    /\ ApiServed
    /\ req.route \in ActionRoutes
    /\ disp.handles_requested = 1
    /\ ~disp.absent
    /\ out = << Response(HTTP_BAD_REQUEST, ErrorBody("Unknown action")) >>

\* C27: an action is rejected as unknown by POST /api/gmail/draft or
\* POST /api/gmail/label exactly if the corresponding tool,
\* manage_workspace_draft or manage_workspace_label, has no branch for it
C27_RoutesAcceptTheToolsActions ==
    (ApiServed /\ req.route \in ActionRoutes /\ disp.handles_requested = 1
        /\ ~disp.absent)
        => (RouteRejectedAction
              <=> The(req.action) \notin ToolActions(ToolOfRoute(req.route)))

(***************************************************************************)
(* Catalog and dispatch                                                    *)
(***************************************************************************)
\* the names of the descriptors module m lists, and of all tools/list lists
Listed_by(m) == { get_tools(m)[i] : i \in 1..Len(get_tools(m)) }
Catalog == { all_tools[i] : i \in 1..Len(all_tools) }

\* the last line was a tools/call answered with "Unknown tool", by the
\* server's dispatch or by a module's handle_tool
AnsweredUnknownTool ==
    \/ OneError /\ out[1].error.message[1] = "Unknown tool"
    \/ OneResult /\ out[1].result.content[1] = "Error: Unknown tool"

\* C28: in every module has_tool is true exactly for the names of the
\* module's descriptors and handle_tool has a branch for exactly these; a
\* tools/call that no module's handle_tool ran for is answered "Unknown tool"
\* and named no tool of the catalog, and a tools/call a module's handle_tool
\* ran for is never answered "Unknown tool"
C28_CatalogAndDispatchAgree ==
    /\ \A m \in Modules :
          /\ \A n \in AllNames \cup { "no_such_tool" } :
                has_tool(m, Some(n)) <=> n \in Listed_by(m)
          /\ tool_branches(m) = Listed_by(m)
    /\ (disp.op = "tools/call" /\ req.params.kind = "object") =>
          IF disp.handled_by = None
          THEN /\ OneError
               /\ out[1].error.message[1] = "Unknown tool"
               /\ \A n \in out[1].error.message[2] : n \notin Catalog
          ELSE ~AnsweredUnknownTool

\* a tool of the last module of the chain was called and its operation ran
C28_Witness ==
    /\ disp.op = "tools/call"
    /\ disp.handled_by = Some("sheets")
    /\ OneResult
    /\ disp.third_party = 1
    /\ out[1].result.content = Text("ok", None)

(***************************************************************************)
(* Isolation of the accounts in the credential store                       *)
(***************************************************************************)
\* the step is the access of an operation performed for account b that
\* writes or unlinks a token file: the save of a get_authenticated_client(b)
\* in progress, the unlink of a remove_account(b) in progress, or a callback
\* that resolves to b
WritesFor(b) ==
    \/ \E t \in Threads :
          IF pc[t] \in { "save", "unlink" }
          THEN loc[t].email = b /\ (gac_save(t) \/ rm_unlink(t))
          ELSE FALSE
    \/ \E c \in Codes, s \in States, rt \in { None, Some("rt") }, x \in ExpiresIn :
          callback_succeeds(c, s, b, rt, x)

\* C29: under every interleaving of the accesses of concurrent calls, a step
\* changes the credential record of account b only if it is an access of an
\* operation performed for b; whatever is done for another account leaves
\* b's record as it was
C29_AccountsIsolated ==
    [][ \A b \in Accounts : tokens'[b] # tokens[b] => WritesFor(b) ]_vars

\* a refresh for one account was saved while another account holds a record
\* that no refresh ever touched
C29_Witness ==
    /\ ret.op = "get_authenticated_client"
    /\ ret.saved # None
    /\ \E b \in Accounts \ { ret.email } :
          /\ tokens[b] # None
          /\ The(tokens[b]).token < The(ret.saved).token
    /\ \E t \in Threads : pc[t] # "idle"

(***************************************************************************)
(* Removal and calls in flight                                             *)
(***************************************************************************)
\* the call that returned last is a remove_account that answered True and
\* left no record of its account
RemovedLast ==
    /\ ret.op = "remove_account"
    /\ ret.result
    /\ tokens[ret.email] = None

\* the step is a callback that resolves to account e
CallbackFor(e) ==
    \E c \in Codes, s \in States, rt \in { None, Some("rt") }, x \in ExpiresIn :
       callback_succeeds(c, s, e, rt, x)

\* C30: once remove_account(e) has returned True, no step makes e
\* authenticated again unless it is a callback that resolves to e, whatever
\* get_authenticated_client(e) calls are in flight at that moment
C30_RemovalDurable ==
    [][ RemovedLast =>
          (is_authenticated(tokens', ret.email) => CallbackFor(ret.email)) ]_vars

====
